---- MODULE Spec2Model ----
(***************************************************************************)
(* A model of the zest request-dispatch engine: the Response wrapper and   *)
(* the Context helpers (src/unnamed/part_010), the default error handler   *)
(* (src/error.go), middleware composition, groups and the engine's         *)
(* dispatch (src/zest.go, src/group.go), and the Logger and Recovery       *)
(* middleware (src/middleware).                                            *)
(*                                                                         *)
(* SpecResp drives one Context through arbitrary sequences of its response *)
(* helpers and of the default error handler.  Spec configures an engine    *)
(* (Use, Group, route registration) and serves requests through it.        *)
(* SpecPool serves requests concurrently, each task taking its Context     *)
(* from the pool and putting it back.  SpecGroups builds trees of groups   *)
(* deep enough for their middleware slices to outgrow and share backing    *)
(* arrays.                                                                 *)
(***************************************************************************)
EXTENDS Integers, Sequences, FiniteSets, TLC

VARIABLES
    c,            \* the Context under test / serving the current request
    pc,           \* where the current request is: "idle", "down", "handler", "up"
    nops,         \* response helper calls made so far in the current request
    last,         \* the helper call made last: its name, arguments and pre-state
    heap,         \* the backing arrays of the middleware slices
    middlewares,  \* Zest.middlewares, a slice
    groups,       \* the Group objects created so far
    routes,       \* the patterns registered on Zest.mux, with their handlers
    nconf,        \* configuration calls made so far
    limit,        \* configuration calls the program makes at most
    ErrHandler,   \* Zest.ErrHandler: the error handler installed
    serving,      \* Run was called
    crashed,      \* a registration panicked: the process is gone
    pool,         \* Zest.pool: the idle Contexts
    chain,        \* the handlers nested for the current request, outermost first
    idx,          \* the position in chain of the handler now running
    ret,          \* the value travelling up: Nil, an error, or a panic
    log,          \* the phases run for the current request, in order
    matched,      \* the index in routes of the pattern the mux chose, 0 before
    errCalls,     \* the ErrHandler invocations of the current request
    logged,       \* the lines Logger wrote for the current request
    objs,         \* SpecPool: the Context objects alive, by identity
    free,         \* SpecPool: the identities of the Contexts idle in Zest.pool
    tasks         \* SpecPool: the requests served concurrently, one per task

(***************************************************************************)
(* Bounds of the model.                                                    *)
(***************************************************************************)
MaxOps == 3
MaxErrDepth == 2
MaxConfigCalls == 4
MaxHandlerOps == 1
MaxTasks == 2
MaxObjects == 2
MaxTaskOps == 1
MaxGroupCalls == 6
MaxJoinCalls == 4
MaxMuxCalls == 2
MaxReqIDCalls == 3
MaxJWTCalls == 2
MaxClientIPCalls == 2
MaxRecoveryCalls == 3
MaxEarlierCalls == 3
MaxCORSCalls == 2
MaxStaticCalls == 2

(***************************************************************************)
(* net/http status codes the program names.                                *)
(***************************************************************************)
StatusOK == 200
StatusBadRequest == 400
StatusNotFound == 404
StatusUnprocessableEntity == 422
StatusInternalServerError == 500
StatusUnauthorized == 401
StatusNoContent == 204
StatusUnsupportedMediaType == 415

MethodGet == "GET"
MethodHead == "HEAD"
MethodPost == "POST"
MethodOptions == "OPTIONS"
MethodDelete == "DELETE"
Methods == {MethodGet, MethodHead, MethodPost}

HeaderContentType == "Content-Type"
HeaderLocation == "Location"
HeaderKeys == {HeaderContentType, HeaderLocation, "X-Request-ID"}

charsetUTF8 == "charset=UTF-8"
MIMEApplicationJSON == "application/json"
MIMETextPlainCharsetUTF8 == "text/plain; charset=UTF-8"
MIMETextHTMLCharsetUTF8 == "text/html; charset=UTF-8"
MIMEApplicationJSONCharsetUTF8 == MIMEApplicationJSON \o "; " \o charsetUTF8

(***************************************************************************)
(* Failure values.  An error is a record; Internal is the error it wraps   *)
(* (what Unwrap returns) or Nil.  Texts are sequences of string tokens, so *)
(* that Error() can concatenate them.                                      *)
(***************************************************************************)
Nil == [type |-> "nil", StatusCode |-> 0, Msg |-> <<>>]

IsNil(e) == e.type = "nil"

\* NewHTTPError(...).SetInternal(internal)
HTTPError(statusCode, msg, internal) ==
    [type |-> "HTTPError", StatusCode |-> statusCode, Msg |-> msg, Internal |-> internal]

\* an error that is no *HTTPError: errors.New(msg) or fmt.Errorf(msg + "%w", internal)
OpaqueError(msg, internal) ==
    [type |-> "opaque", StatusCode |-> 0, Msg |-> msg, Internal |-> internal]

BaseErrors ==
    { HTTPError(StatusNotFound, <<"not found">>, Nil),
      HTTPError(StatusBadRequest, <<"bad request">>, Nil),
      OpaqueError(<<"boom">>, Nil) }

WrapErrors(S) ==
    { HTTPError(StatusUnprocessableEntity, <<"invalid">>, e) : e \in S }
        \cup { OpaqueError(<<"ctx: ">>, e) : e \in S }

RECURSIVE ErrorsOfDepth(_)
ErrorsOfDepth(d) ==
    IF d = 0 THEN BaseErrors ELSE WrapErrors(ErrorsOfDepth(d - 1))

\* every failure value a handler of the model may return
Errors == UNION { ErrorsOfDepth(d) : d \in 0..MaxErrDepth }

\* (*HTTPError).Unwrap, and the Unwrap of an error built with %w
Unwrap(e) == IF IsNil(e) THEN Nil ELSE e.Internal

\* (*HTTPError).Error and the Error of the other failure values
RECURSIVE ErrorText(_)
ErrorText(e) ==
    IF IsNil(e) THEN <<>>
    ELSE IF e.type = "HTTPError"
    THEN IF IsNil(e.Internal)
         THEN <<"code=", ToString(e.StatusCode), ", message=">> \o e.Msg
         ELSE <<"code=", ToString(e.StatusCode), ", message=">> \o e.Msg
                  \o <<", error=">> \o ErrorText(e.Internal)
    ELSE e.Msg \o ErrorText(e.Internal)

\* errors.As(err, &he) with he a *HTTPError: the first *HTTPError on err's
\* Unwrap chain, Nil when there is none
RECURSIVE AsHTTPError(_)
AsHTTPError(e) ==
    IF IsNil(e) THEN Nil
    ELSE IF e.type = "HTTPError" THEN e
    ELSE AsHTTPError(Unwrap(e))

(***************************************************************************)
(* Byte lengths of the texts the model writes.                             *)
(***************************************************************************)
TokLen(t) ==
    CASE t = "not found" -> 9
      [] t = "bad request" -> 11
      [] t = "invalid" -> 7
      [] t = "boom" -> 4
      [] t = "ctx: " -> 5
      [] t = "code=" -> 5
      [] t = ", message=" -> 10
      [] t = ", error=" -> 8
      [] t = "hello" -> 5
      [] OTHER -> 3

RECURSIVE TextLen(_)
TextLen(s) == IF s = <<>> THEN 0 ELSE TokLen(Head(s)) + TextLen(Tail(s))

\* a body chunk: plain text, or the JSON encoding of Map{"error": text},
\* which json.Encoder ends with a newline
TextChunk(s) == [json |-> FALSE, text |-> s]
JSONErrorChunk(msg) == [json |-> TRUE, text |-> msg]

\* {"error":"..."} and the newline
JSONOverhead == 13

ByteLen(b) == IF b.json THEN JSONOverhead + TextLen(b.text) ELSE TextLen(b.text)

(***************************************************************************)
(* The transport's http.ResponseWriter (net/http): the header map, the     *)
(* WriteHeader calls it received, the status line and the headers it sent, *)
(* and the body.                                                           *)
(***************************************************************************)
\* a header map holds, for each key, the sequence of its values
NoHeaders == [k \in HeaderKeys |-> <<>>]

NewWriter(method) ==
    [hdr |-> NoHeaders, calls |-> 0, status |-> 0, sent |-> NoHeaders,
     body |-> <<>>, head |-> (method = MethodHead)]

\* the writer before a request is bound (NewContext(nil, nil))
NoWriter == NewWriter("")

\* faulty variant: Header().Add, which keeps the values already there
WriterAddHeader(w, k, v) == [w EXCEPT !.hdr[k] = Append(@, v)]

\* Header().Set(k, v): v replaces the values of k
WriterSetHeader(w, k, v) == [w EXCEPT !.hdr = (k :> <<v>>) @@ @]

\* Header.Values(k): the values of k, none for a key the map does not hold
HeaderValues(h, k) == IF k \in DOMAIN h THEN h[k] ELSE <<>>

\* the first status wins and freezes the headers; a later call is superfluous
WriterCommit(w, code) ==
    IF w.status # 0 THEN w ELSE [w EXCEPT !.status = code, !.sent = w.hdr]

WriterWriteHeader(w, code) == [WriterCommit(w, code) EXCEPT !.calls = @ + 1]

BodyAllowedForStatus(code) ==
    ~(code < 200 \/ code = 204 \/ code = 304)

\* the count Write returns: 0 with ErrBodyNotAllowed, else len(b)
WriterWriteN(w, b) ==
    LET w1 == WriterCommit(w, StatusOK)
    IN  IF BodyAllowedForStatus(w1.status) THEN ByteLen(b) ELSE 0

WriterWrite(w, b) ==
    LET w1 == WriterCommit(w, StatusOK)
    IN  IF BodyAllowedForStatus(w1.status) /\ ~w1.head
        THEN [w1 EXCEPT !.body = Append(@, b)]
        ELSE w1

(***************************************************************************)
(* Response (src/unnamed/part_010:25-63).                                  *)
(***************************************************************************)
\* faulty variant: WriteHeader without the Committed guard
ResponseWriteHeaderUnguarded(r, code) ==
    [r EXCEPT !.Status = code,
              !.ResponseWriter = WriterWriteHeader(@, code),
              !.Committed = TRUE]

ResponseWriteHeader(r, code) ==
    IF r.Committed THEN r
    ELSE [r EXCEPT !.Status = code,
                   !.ResponseWriter = WriterWriteHeader(@, code),
                   !.Committed = TRUE]

\* faulty variant: Write forwards WriteHeader whether or not the response is committed
ResponseWriteAlwaysCommits(r, b) ==
    LET r0 == IF r.Status = 0 THEN [r EXCEPT !.Status = StatusOK] ELSE r
        r1 == [r0 EXCEPT !.ResponseWriter = WriterWriteHeader(@, r0.Status),
                         !.Committed = TRUE]
    IN  [r1 EXCEPT !.ResponseWriter = WriterWrite(@, b),
                   !.Size = @ + WriterWriteN(r1.ResponseWriter, b)]

ResponseWrite(r, b) ==
    LET r0 == IF r.Status = 0 THEN [r EXCEPT !.Status = StatusOK] ELSE r
        r1 == IF ~r.Committed THEN ResponseWriteHeader(r0, r0.Status) ELSE r
    IN  [r1 EXCEPT !.ResponseWriter = WriterWrite(@, b),
                   !.Size = @ + WriterWriteN(r1.ResponseWriter, b)]

\* faulty variant: WriteString passes the text on without committing
ResponseWriteStringNoCommit(r, s) ==
    [r EXCEPT !.ResponseWriter = WriterWrite(@, TextChunk(s)),
              !.Size = @ + WriterWriteN(r.ResponseWriter, TextChunk(s))]

ResponseWriteString(r, s) ==
    LET r0 == IF r.Status = 0 THEN [r EXCEPT !.Status = StatusOK] ELSE r
        r1 == IF ~r.Committed THEN ResponseWriteHeader(r0, r0.Status) ELSE r
    IN  [r1 EXCEPT !.ResponseWriter = WriterWrite(@, TextChunk(s)),
                   !.Size = @ + WriterWriteN(r1.ResponseWriter, TextChunk(s))]

(***************************************************************************)
(* Context (src/unnamed/part_010:65-212).                                  *)
(***************************************************************************)
\* a request as the Context reads it: method, URL path, headers, peer
\* address, the values of its context.Context, and the route pattern the mux
\* matched it with (0: none yet).  A header value and an address are the
\* sequences of their tokens.
NoRequestHeader ==
    [k \in {"Authorization", "X-Request-ID", "X-Forwarded-For", "X-Real-Ip", "Origin",
            "Content-Type"}
        |-> <<>>]

Request(method, path) ==
    [Method |-> method, Path |-> path, Header |-> NoRequestHeader,
     RemoteAddr |-> <<>>, ContentLength |-> 0, values |-> {}, pat |-> 0]

NoRequest == Request("", <<>>)

\* faulty variant: reset leaves the store as the last request left it
resetKeepsStore(ctx, w, r) ==
    [ctx EXCEPT !.response = [ResponseWriter |-> w, Status |-> StatusOK,
                              Size |-> 0, Committed |-> FALSE],
                !.Request = r,
                !.Path = r.Path,
                !.Method = r.Method,
                !.zest = FALSE]

\* faulty variant: reset rebinds the writer and leaves the rest of the response
resetKeepsResponse(ctx, w, r) ==
    [ctx EXCEPT !.response.ResponseWriter = w,
                !.Request = r,
                !.Path = r.Path,
                !.Method = r.Method,
                !.store = <<>>,
                !.zest = FALSE]

\* reset(w, r); a nil request leaves Path and Method empty
reset(ctx, w, r) ==
    [ctx EXCEPT !.response = [ResponseWriter |-> w, Status |-> StatusOK,
                              Size |-> 0, Committed |-> FALSE],
                !.Request = r,
                !.Path = r.Path,
                !.Method = r.Method,
                !.store = <<>>,
                !.zest = FALSE]

\* faulty variant: sync empties the store, as reset does
syncClearsStore(ctx, w, r) ==
    [ctx EXCEPT !.Request = r,
                !.response.ResponseWriter = w,
                !.Path = r.Path,
                !.Method = r.Method,
                !.store = <<>>]

\* sync(w, r): rebinds the request and the writer, keeps everything else
sync(ctx, w, r) ==
    [ctx EXCEPT !.Request = r,
                !.response.ResponseWriter = w,
                !.Path = r.Path,
                !.Method = r.Method]

ZeroContext ==
    [response |-> [ResponseWriter |-> NoWriter, Status |-> 0, Size |-> 0,
                   Committed |-> FALSE],
     Request |-> NoRequest, Path |-> <<>>, Method |-> "", store |-> <<>>,
     zest |-> FALSE]

NewContext == reset(ZeroContext, NoWriter, NoRequest)

SetStatus(ctx, statusCode) ==
    [ctx EXCEPT !.response = ResponseWriteHeader(@, statusCode)]

SetHeader(ctx, key, value) ==
    [ctx EXCEPT !.response.ResponseWriter = WriterSetHeader(@, key, value)]

\* JSON(status, Map{"error": msg})
JSON(ctx, status, msg) ==
    LET c1 == SetHeader(ctx, HeaderContentType, MIMEApplicationJSON)
        c2 == SetStatus(c1, status)
    IN  [c2 EXCEPT !.response = ResponseWrite(@, JSONErrorChunk(msg))]

String(ctx, status, s) ==
    LET c1 == SetHeader(ctx, HeaderContentType, MIMETextPlainCharsetUTF8)
        c2 == SetStatus(c1, status)
    IN  [c2 EXCEPT !.response = ResponseWriteString(@, s)]

HTML(ctx, status, html) ==
    LET c1 == SetHeader(ctx, HeaderContentType, MIMETextHTMLCharsetUTF8)
        c2 == SetStatus(c1, status)
    IN  [c2 EXCEPT !.response = ResponseWriteString(@, html)]

NoContent(ctx, status) == SetStatus(ctx, status)

\* Set(key, val): the store is made on first use
Set(ctx, key, val) == [ctx EXCEPT !.store = (key :> val) @@ @]

\* Get(key): nil for a key the store does not hold
NilValue == "nil"
Get(ctx, key) == IF key \in DOMAIN ctx.store THEN ctx.store[key] ELSE NilValue

\* the keys and values the handlers of the model store
Keys == {"user"}
Values == {"alice"}

\* Redirect returns a failure and does nothing for a status outside 300..399
RedirectFails(status) == status < 300 \/ status > 399

\* faulty variant: Redirect answers with whatever status it is given
RedirectAnyStatus(ctx, status, url) ==
    SetStatus(SetHeader(ctx, HeaderLocation, url), status)

\* what Redirect returns: fmt.Errorf("invalid status code"), or nil
RedirectResult(status) ==
    IF RedirectFails(status) THEN OpaqueError(<<"invalid status code">>, Nil) ELSE Nil

Redirect(ctx, status, url) ==
    IF RedirectFails(status) THEN ctx
    ELSE SetStatus(SetHeader(ctx, HeaderLocation, url), status)

(***************************************************************************)
(* DefaultErrHandlerFunc (src/error.go:14-46).                             *)
(***************************************************************************)
\* faulty variant: the outer *HTTPError is used even when its cause holds another
ClassifyErrorOuterOnly(err) ==
    LET he == AsHTTPError(err)
    IN  IF ~IsNil(he) THEN he
        ELSE HTTPError(StatusInternalServerError, ErrorText(err), Nil)

\* faulty variant: the 500 message is the failure's own message without its cause's
ClassifyErrorShortText(err) ==
    LET he == AsHTTPError(err)
    IN  IF ~IsNil(he)
        THEN IF ~IsNil(he.Internal) /\ ~IsNil(AsHTTPError(he.Internal))
             THEN AsHTTPError(he.Internal)
             ELSE he
        ELSE HTTPError(StatusInternalServerError, err.Msg, Nil)

\* the *HTTPError the handler answers with
ClassifyError(err) ==
    LET he == AsHTTPError(err)
    IN  IF ~IsNil(he)
        THEN IF ~IsNil(he.Internal) /\ ~IsNil(AsHTTPError(he.Internal))
             THEN AsHTTPError(he.Internal)
             ELSE he
        ELSE HTTPError(StatusInternalServerError, ErrorText(err), Nil)

\* faulty variant: no check of Committed
DefaultErrHandlerFuncNoCommitCheck(err, ctx) ==
    LET he == ClassifyError(err)
    IN  IF ctx.Request.Method = MethodHead
        THEN NoContent(ctx, he.StatusCode)
        ELSE JSON(ctx, he.StatusCode, he.Msg)

\* faulty variant: no HEAD branch
DefaultErrHandlerFuncNoHead(err, ctx) ==
    IF ctx.response.Committed THEN ctx
    ELSE LET he == ClassifyError(err)
         IN  JSON(ctx, he.StatusCode, he.Msg)

DefaultErrHandlerFunc(err, ctx) ==
    IF ctx.response.Committed THEN ctx
    ELSE LET he == ClassifyError(err)
         IN  IF ctx.Request.Method = MethodHead
             THEN NoContent(ctx, he.StatusCode)
             ELSE JSON(ctx, he.StatusCode, he.Msg)

(***************************************************************************)
(* Go slices of middleware.  A slice is a window [1..len] on a backing     *)
(* array of cap elements; append writes in place while the capacity lasts  *)
(* and otherwise copies to a larger array (runtime growslice).             *)
(***************************************************************************)
NilSlice == [arr |-> 0, len |-> 0, cap |-> 0]

\* the elements of slice s, in order
Elems(h, s) == [i \in 1..s.len |-> h[s.arr][i]]

\* the capacity the runtime rounds a pointer slice up to (its size classes)
RoundUpCap(n) ==
    IF n <= 4 THEN n
    ELSE IF n % 2 = 0 THEN n ELSE n + 1

GrowCap(oldCap, needed) ==
    IF needed > 2 * oldCap THEN RoundUpCap(needed) ELSE RoundUpCap(2 * oldCap)

\* append(s, xs...): the heap and the slice that result
AppendSlice(h, s, xs) ==
    IF Len(xs) = 0 THEN [heap |-> h, slice |-> s]
    ELSE IF s.len + Len(xs) <= s.cap
    THEN [heap |-> [h EXCEPT ![s.arr] =
                       [i \in 1..s.cap |->
                           IF i > s.len /\ i <= s.len + Len(xs)
                           THEN xs[i - s.len] ELSE @[i]]],
          slice |-> [s EXCEPT !.len = @ + Len(xs)]]
    ELSE LET newCap == GrowCap(s.cap, s.len + Len(xs))
             old == Elems(h, s)
             arr == [i \in 1..newCap |->
                        IF i <= s.len THEN old[i]
                        ELSE IF i <= s.len + Len(xs) THEN xs[i - s.len]
                        ELSE ""]
         IN  [heap |-> Append(h, arr),
              slice |-> [arr |-> Len(h) + 1, len |-> s.len + Len(xs),
                         cap |-> newCap]]

\* the slice a call f(x1, ..., xn) passes for its variadic parameter
VariadicSlice(h, xs) ==
    IF Len(xs) = 0 THEN [heap |-> h, slice |-> NilSlice]
    ELSE [heap |-> Append(h, xs),
          slice |-> [arr |-> Len(h) + 1, len |-> Len(xs), cap |-> Len(xs)]]

\* The heap as the program can observe it: arrays no slice refers to are
\* collected, the others numbered in the order the engine and the groups
\* reach them, and the slots no slice covers are blank.
RECURSIVE LiveArrays(_, _)
LiveArrays(slices, acc) ==
    IF slices = <<>> THEN acc
    ELSE LET a == Head(slices).arr
         IN  IF a = 0 \/ (\E k \in 1..Len(acc) : acc[k] = a)
             THEN LiveArrays(Tail(slices), acc)
             ELSE LiveArrays(Tail(slices), Append(acc, a))

Compact(h, mw, gs) ==
    LET slices == <<mw>> \o [i \in 1..Len(gs) |-> gs[i].middlewares]
        live == LiveArrays(slices, <<>>)
        pos(a) == IF a = 0 THEN 0 ELSE CHOOSE k \in 1..Len(live) : live[k] = a
        covered(a) ==
            LET lens == { slices[i].len : i \in { j \in 1..Len(slices) : slices[j].arr = a } }
            IN  CHOOSE n \in lens : \A m \in lens : m <= n
        move(sl) == [sl EXCEPT !.arr = pos(sl.arr)]
    IN  [heap |-> [k \in 1..Len(live) |->
                      [i \in 1..Len(h[live[k]]) |->
                          IF i <= covered(live[k]) THEN h[live[k]][i] ELSE ""]],
         middlewares |-> move(mw),
         groups |-> [i \in 1..Len(gs) |-> [gs[i] EXCEPT !.middlewares = move(@)]]]

\* the configuration an action leaves behind
Configured(h, mw, gs) ==
    LET n == Compact(h, mw, gs)
    IN  /\ heap' = n.heap
        /\ middlewares' = n.middlewares
        /\ groups' = n.groups

(***************************************************************************)
(* Handlers.  A HandlerFunc is the sequence of the closures nested in it,  *)
(* outermost first: middleware, then what they wrap.                       *)
(***************************************************************************)
Layer(k, id) == [k |-> k, id |-> id]

\* faulty variant: the middleware are applied first to last, so the last
\* registered ends up outermost
useForward(handler, mws) ==
    IF Len(mws) = 0 THEN handler
    ELSE [i \in 1..Len(mws) |-> Layer("mw", mws[Len(mws) + 1 - i])] \o handler

\* use(handler, mws...): for i from len-1 down to 0, handler = mws[i](handler)
RECURSIVE use(_, _)
use(handler, mws) ==
    IF Len(mws) = 0 THEN handler
    ELSE use(<<Layer("mw", mws[Len(mws)])>> \o handler,
             SubSeq(mws, 1, Len(mws) - 1))

(***************************************************************************)
(* The middleware of the model: A, B, G, R only call next; Logger and      *)
(* Recovery are those of src/middleware.                                   *)
(***************************************************************************)
GlobalMws == {"G", "Logger", "Recovery"}
RootGroupMws == {"A"}
UsedGroupMws == {"B"}
SubGroupMws == {"C"}
RouteMws == {"R", "Logger"}

(***************************************************************************)
(* Patterns and paths are sequences of tokens: "/" and segment texts.      *)
(* net/http's ServeMux picks, among the patterns matching a request, the   *)
(* most specific one.                                                      *)
(***************************************************************************)
Slash == "/"

IsParam(t) == t \in {"{name}"}
IsWild(t) == t \in {"{path...}"}

\* the segments of a pattern or path: the text after each "/"
RECURSIVE Segments(_)
Segments(p) ==
    IF p = <<>> THEN <<>>
    ELSE IF Head(p) = Slash
    THEN IF Len(p) >= 2 /\ p[2] # Slash
         THEN <<p[2]>> \o Segments(SubSeq(p, 3, Len(p)))
         ELSE <<"">> \o Segments(Tail(p))
    ELSE <<Head(p)>> \o Segments(Tail(p))

RECURSIVE MatchSegments(_, _)
MatchSegments(ps, rs) ==
    IF ps = <<>> THEN rs = <<>>
    ELSE IF IsWild(Head(ps)) \/ (Head(ps) = "" /\ Len(ps) = 1) THEN TRUE
    ELSE IF rs = <<>> THEN FALSE
    ELSE IF IsParam(Head(ps)) THEN Head(rs) # "" /\ MatchSegments(Tail(ps), Tail(rs))
    ELSE Head(ps) = Head(rs) /\ MatchSegments(Tail(ps), Tail(rs))

\* a GET pattern also serves HEAD; a pattern without method serves all
MethodMatches(pm, m) == pm = "" \/ pm = m \/ (pm = MethodGet /\ m = MethodHead)

RouteMatches(rt, m, path) ==
    /\ MethodMatches(rt.method, m)
    /\ MatchSegments(Segments(rt.pattern), Segments(path))

SegRank(t) == IF IsWild(t) \/ t = "" THEN 2 ELSE IF IsParam(t) THEN 1 ELSE 0

\* ps is more specific than qs: at the first position where they differ in
\* kind, ps has the narrower segment
RECURSIVE MoreSpecificSegs(_, _)
MoreSpecificSegs(ps, qs) ==
    IF ps = <<>> \/ qs = <<>> THEN FALSE
    ELSE IF SegRank(Head(ps)) # SegRank(Head(qs))
    THEN SegRank(Head(ps)) < SegRank(Head(qs))
    ELSE MoreSpecificSegs(Tail(ps), Tail(qs))

MoreSpecific(r1, r2) ==
    \/ MoreSpecificSegs(Segments(r1.pattern), Segments(r2.pattern))
    \/ /\ Segments(r1.pattern) = Segments(r2.pattern)
       /\ r1.method # "" /\ r2.method = ""

\* faulty variant: the matching route registered first, the catch-all when
\* there is none
ResolveFirstRegistered(rts, m, path) ==
    LET ms == { i \in 2..Len(rts) : RouteMatches(rts[i], m, path) }
    IN  IF ms = {} THEN 1 ELSE CHOOSE i \in ms : \A j \in ms : i <= j

\* the index in routes of the pattern the mux serves the request with
Resolve(rts, m, path) ==
    CHOOSE i \in 1..Len(rts) :
        /\ RouteMatches(rts[i], m, path)
        /\ \A j \in 1..Len(rts) :
               RouteMatches(rts[j], m, path) => ~MoreSpecific(rts[j], rts[i])

\* the name a wildcard segment captures under
WildName(t) == IF t = "{name}" THEN "name" ELSE IF t = "{path...}" THEN "path" ELSE ""

\* segments joined by "/"
RECURSIVE JoinSegments(_)
JoinSegments(rs) ==
    IF rs = <<>> THEN ""
    ELSE IF Len(rs) = 1 THEN Head(rs)
    ELSE Head(rs) \o Slash \o JoinSegments(Tail(rs))

\* faulty variant: a trailing wildcard captures one segment only
RECURSIVE PathValueOneSegment(_, _, _)
PathValueOneSegment(ps, rs, key) ==
    IF ps = <<>> \/ rs = <<>> THEN ""
    ELSE IF WildName(Head(ps)) = key THEN Head(rs)
    ELSE PathValueOneSegment(Tail(ps), Tail(rs), key)

\* Request.PathValue(key) on a request the mux matched with the pattern of
\* segments ps, rs being the segments of its path: what the wildcard named
\* key captured, "" when the pattern has none
RECURSIVE PathValue(_, _, _)
PathValue(ps, rs, key) ==
    IF ps = <<>> \/ rs = <<>> THEN ""
    ELSE IF WildName(Head(ps)) = key
    THEN IF IsWild(Head(ps)) THEN JoinSegments(rs) ELSE Head(rs)
    ELSE PathValue(Tail(ps), Tail(rs), key)

\* two patterns the mux refuses to hold together
Conflicts(r1, r2) == r1.method = r2.method /\ r1.pattern = r2.pattern

\* the catch-all New registers: "/" without a method
CatchAll ==
    [method |-> "", pattern |-> <<Slash>>, final |-> <<Layer("notfound", "")>>,
     group |-> 0, gmws |-> <<>>, gwant |-> <<>>, rmws |-> <<>>]

(***************************************************************************)
(* SpecResp: one Context, a request bound to it by reset, then any         *)
(* sequence of response helper calls and error handler calls.              *)
(***************************************************************************)
poolVars == <<objs, free, tasks>>

engineVars ==
    <<heap, middlewares, groups, routes, nconf, serving, crashed, pool, chain, idx,
      ret, log, matched, errCalls, logged, limit, ErrHandler, poolVars>>

vars == <<c, pc, nops, last, engineVars>>

\* the status codes the handlers of the model pass to the helpers
Codes == {200, 201, 204, 302, 404}
Texts == {<<"hello">>}
URLs == {"/login"}

NoCall ==
    [op |-> "none", code |-> 0, err |-> Nil, pre |-> ZeroContext.response,
     prevOp |-> "none", prevCode |-> 0]

\* the record of a call made now: its pre-state and the call before it
Call(op, code, err) ==
    [op |-> op, code |-> code, err |-> err, pre |-> c.response,
     prevOp |-> last.op, prevCode |-> last.code]

NewRequest(method) == Request(method, <<"/">>)

\* a task serving no request: it holds no Context
IdleTask == [pc |-> "idle", ctx |-> 0, n |-> 0, used |-> FALSE]

\* the state New() returns: no middleware, the catch-all registered, an
\* empty pool
Fresh ==
    /\ c = NewContext
    /\ pc = "idle"
    /\ nops = 0
    /\ last = NoCall
    /\ heap = <<>>
    /\ middlewares = NilSlice
    /\ groups = <<>>
    /\ routes = <<CatchAll>>
    /\ nconf = 0
    /\ serving = FALSE
    /\ crashed = FALSE
    /\ ErrHandler = "DefaultErrHandlerFunc"
    /\ pool = <<>>
    /\ chain = <<>>
    /\ idx = 0
    /\ ret = Nil
    /\ log = <<>>
    /\ matched = 0
    /\ errCalls = <<>>
    /\ logged = <<>>
    /\ objs = <<>>
    /\ free = {}
    /\ tasks = [t \in 1..MaxTasks |-> IdleTask]

Init == Fresh /\ limit = MaxConfigCalls

InitResp == Init

\* a request arrives: reset binds it and a fresh writer to the Context
RespReset ==
    /\ \E m \in Methods :
          c' = reset(c, NewWriter(m), NewRequest(m))
    /\ pc' = "handler"
    /\ nops' = 0
    /\ last' = NoCall
    /\ UNCHANGED engineVars

CanCall == pc = "handler" /\ nops < MaxOps

RespSetStatus ==
    /\ CanCall
    /\ \E code \in Codes :
          /\ c' = SetStatus(c, code)
          /\ last' = Call("SetStatus", code, Nil)
    /\ nops' = nops + 1
    /\ UNCHANGED <<pc, engineVars>>

RespWrite ==
    /\ CanCall
    /\ \E s \in Texts :
          /\ c' = [c EXCEPT !.response = ResponseWrite(@, TextChunk(s))]
          /\ last' = Call("Write", 0, Nil)
    /\ nops' = nops + 1
    /\ UNCHANGED <<pc, engineVars>>

RespWriteString ==
    /\ CanCall
    /\ \E s \in Texts :
          /\ c' = [c EXCEPT !.response = ResponseWriteString(@, s)]
          /\ last' = Call("WriteString", 0, Nil)
    /\ nops' = nops + 1
    /\ UNCHANGED <<pc, engineVars>>

RespJSON ==
    /\ CanCall
    /\ \E code \in Codes, s \in Texts :
          /\ c' = JSON(c, code, s)
          /\ last' = Call("JSON", code, Nil)
    /\ nops' = nops + 1
    /\ UNCHANGED <<pc, engineVars>>

RespString ==
    /\ CanCall
    /\ \E code \in Codes, s \in Texts :
          /\ c' = String(c, code, s)
          /\ last' = Call("String", code, Nil)
    /\ nops' = nops + 1
    /\ UNCHANGED <<pc, engineVars>>

RespHTML ==
    /\ CanCall
    /\ \E code \in Codes, s \in Texts :
          /\ c' = HTML(c, code, s)
          /\ last' = Call("HTML", code, Nil)
    /\ nops' = nops + 1
    /\ UNCHANGED <<pc, engineVars>>

RespNoContent ==
    /\ CanCall
    /\ \E code \in Codes :
          /\ c' = NoContent(c, code)
          /\ last' = Call("NoContent", code, Nil)
    /\ nops' = nops + 1
    /\ UNCHANGED <<pc, engineVars>>

RespRedirectOf(codes) ==
    /\ CanCall
    /\ \E code \in codes, u \in URLs :
          /\ c' = Redirect(c, code, u)
          /\ last' = Call("Redirect", code, RedirectResult(code))
    /\ nops' = nops + 1
    /\ UNCHANGED <<pc, engineVars>>

RespRedirect == RespRedirectOf(Codes)

RespErrHandler ==
    /\ CanCall
    /\ \E err \in Errors :
          /\ c' = DefaultErrHandlerFunc(err, c)
          /\ last' = Call("ErrHandler", 0, err)
    /\ nops' = nops + 1
    /\ UNCHANGED <<pc, engineVars>>

NextResp ==
    \/ RespReset
    \/ RespSetStatus
    \/ RespWrite
    \/ RespWriteString
    \/ RespJSON
    \/ RespString
    \/ RespHTML
    \/ RespNoContent
    \/ RespRedirect
    \/ RespErrHandler

SpecResp == InitResp /\ [][NextResp]_vars

(***************************************************************************)
(* SpecRedirect: Redirect with statuses on both sides of 300 and 399, on   *)
(* responses that are and are not committed.                               *)
(***************************************************************************)
RedirectCodes == {200, 299, 300, 302, 399, 400}

NextRedirect ==
    \/ RespReset
    \/ RespWriteString
    \/ RespRedirectOf(RedirectCodes)

SpecRedirect == Init /\ [][NextRedirect]_vars

(***************************************************************************)
(* Spec: the engine.  Configuration (Use, Group, route registration) until *)
(* Run, then requests, one at a time, each stepping down the nested        *)
(* handlers to the terminal handler and back up.                           *)
(***************************************************************************)
Prefixes == {<<Slash, "api">>}
SubPrefixes == {<<Slash, "v1">>}
Patterns == {<<Slash, "hello">>}
\* the paths requested: those of the registered patterns, and one that no
\* pattern of the model matches
RequestPaths ==
    { routes[i].pattern : i \in 2..Len(routes) } \cup { <<Slash, "nope">> }

\* the methods requested: one the routes serve, one they do not
ServedMethods == {MethodGet, MethodPost}

\* the middleware a call site passes: none or one
NoneOrOne(S) == {<<>>} \cup { <<m>> : m \in S }

Configuring == ~serving /\ ~crashed

\* one more configuration call, within the bound
ConfigCall == Configuring /\ nconf < limit /\ nconf' = nconf + 1

requestVars ==
    <<c, pc, nops, last, pool, chain, idx, ret, log, matched, errCalls, logged, limit,
      ErrHandler, poolVars>>

\* Zest.Use(mws...), its argument drawn from the given set
UseOf(mws) ==
    /\ ConfigCall
    /\ \E m \in mws :
          LET a == AppendSlice(heap, middlewares, <<m>>)
          IN  Configured(a.heap, a.slice, groups)
    /\ UNCHANGED <<routes, serving, crashed, requestVars>>

Use == UseOf(GlobalMws)

\* Zest.Group(prefix, mws...), its arguments drawn from the given sets: the
\* group keeps the caller's variadic slice
ZestGroupOf(prefixes, mwss) ==
    /\ ConfigCall
    /\ \E prefix \in prefixes, xs \in mwss :
          LET v == VariadicSlice(heap, xs)
          IN  Configured(v.heap, middlewares,
                         Append(groups, [prefix |-> prefix, middlewares |-> v.slice,
                                         parent |-> 0, want |-> xs]))
    /\ UNCHANGED <<routes, serving, crashed, requestVars>>

ZestGroup == ZestGroupOf(Prefixes, NoneOrOne(RootGroupMws))

\* Group.Use(mws...)
GroupUse ==
    /\ ConfigCall
    /\ \E g \in 1..Len(groups), m \in UsedGroupMws :
          LET a == AppendSlice(heap, groups[g].middlewares, <<m>>)
          IN  Configured(a.heap, middlewares,
                         [groups EXCEPT ![g].middlewares = a.slice,
                                        ![g].want = Append(@, m)])
    /\ UNCHANGED <<routes, serving, crashed, requestVars>>

\* Group.Group(prefix, mws...), its arguments drawn from the given sets.  A
\* string is the sequence of its tokens, so g.prefix + prefix is \o; text
\* tokens that end up side by side read as one segment.
GroupGroupOf(prefixes, mwss) ==
    /\ ConfigCall
    /\ \E g \in 1..Len(groups), prefix \in prefixes, xs \in mwss :
          LET a == AppendSlice(heap, groups[g].middlewares, xs)
          IN  Configured(a.heap, middlewares,
                         Append(groups, [prefix |-> groups[g].prefix \o prefix,
                                         middlewares |-> a.slice, parent |-> g,
                                         want |-> Elems(heap, groups[g].middlewares)
                                                  \o xs]))
    /\ UNCHANGED <<routes, serving, crashed, requestVars>>

GroupGroup == GroupGroupOf(SubPrefixes, NoneOrOne(SubGroupMws))

\* the terminal handler registered n-th
HandlerLayer(n) == Layer("H", ToString(n))

\* faulty variant: a pattern registered again replaces the route that held it
RegisterReplaces(method, pattern, mws, g, gm, gw, rm) ==
    LET finalHandler == use(<<Layer("H", ToString(Len(routes)))>>, mws)
        rt == [method |-> method, pattern |-> pattern,
               final |-> <<Layer("route", "")>> \o finalHandler,
               group |-> g, gmws |-> gm, gwant |-> gw, rmws |-> rm]
        dup == { i \in 1..Len(routes) : Conflicts(routes[i], rt) }
    IN  /\ crashed' = crashed
        /\ routes' = IF dup = {} THEN Append(routes, rt)
                      ELSE [i \in 1..Len(routes) |-> IF i \in dup THEN rt ELSE routes[i]]

\* Zest.handle(method, pattern, handler, mws...): composes the route's own
\* middleware around the handler and registers the closure on the mux, which
\* panics on a pattern it already holds.  g, gm, gw and rm record where the
\* route came from: the group, the middleware the group held, those it was
\* given (its parent's when it was created, then its own), the call-site's.
Register(method, pattern, mws, g, gm, gw, rm) ==
    LET finalHandler == use(<<HandlerLayer(Len(routes))>>, mws)
        rt == [method |-> method, pattern |-> pattern,
               final |-> <<Layer("route", "")>> \o finalHandler,
               group |-> g, gmws |-> gm, gwant |-> gw, rmws |-> rm]
    IN  IF \E i \in 1..Len(routes) : Conflicts(routes[i], rt)
        THEN crashed' = TRUE /\ routes' = routes
        ELSE crashed' = crashed /\ routes' = Append(routes, rt)

\* Zest.handle, its arguments drawn from the given sets
ZestHandleOf(patterns, mwss) ==
    /\ ConfigCall
    /\ \E pattern \in patterns, xs \in mwss :
          Register(MethodGet, pattern, xs, 0, <<>>, <<>>, xs)
    /\ UNCHANGED <<heap, middlewares, groups, serving, requestVars>>

ZestHandle == ZestHandleOf(Patterns, NoneOrOne(RouteMws))

\* faulty variant: the call-site middleware come before the group's
GroupChainRouteFirst(h, g, xs) ==
    LET a == AppendSlice(h, g.middlewares, xs)
    IN  [heap |-> a.heap, mws |-> xs \o Elems(h, g.middlewares)]

\* finalMws := append(g.middlewares, mws...)
GroupChain(h, g, xs) ==
    LET a == AppendSlice(h, g.middlewares, xs)
    IN  [heap |-> a.heap, mws |-> Elems(a.heap, a.slice)]

\* Group.handle(method, pattern, handler, mws...), its arguments drawn from
\* the given sets
GroupHandleOf(patterns, mwss) ==
    /\ ConfigCall
    /\ \E g \in 1..Len(groups), pattern \in patterns, xs \in mwss :
          LET fullPattern == groups[g].prefix \o pattern
              f == GroupChain(heap, groups[g], xs)
          IN  /\ Configured(f.heap, middlewares, groups)
              /\ Register(MethodGet, fullPattern, f.mws, g,
                          Elems(heap, groups[g].middlewares), groups[g].want, xs)
    /\ UNCHANGED <<serving, requestVars>>

GroupHandle == GroupHandleOf(Patterns, NoneOrOne(RouteMws))

\* Zest.Run
Run ==
    /\ Configuring
    /\ serving' = TRUE
    /\ UNCHANGED <<heap, middlewares, groups, routes, nconf, crashed, requestVars>>

\* z.ErrHandler = f, before serving
SetErrHandler ==
    /\ Configuring
    /\ \E f \in {"DefaultErrHandlerFunc", "CustomErrHandler"} :
          ErrHandler' = f /\ f # ErrHandler
    /\ UNCHANGED <<c, pc, nops, last, heap, middlewares, groups, routes, nconf, limit,
                   serving, crashed, pool, chain, idx, ret, log, matched, errCalls,
                   logged, poolVars>>

\* the caller recovers the panic of a rejected registration and goes on
RecoverRegistration ==
    /\ crashed /\ ~serving
    /\ crashed' = FALSE
    /\ UNCHANGED <<heap, middlewares, groups, routes, nconf, serving, requestVars>>

configVars ==
    <<heap, middlewares, groups, routes, nconf, serving, crashed, limit, ErrHandler,
      poolVars>>

(***************************************************************************)
(* Serving a request.                                                      *)
(***************************************************************************)
Event(ev, id, got) == [ev |-> ev, id |-> id, got |-> got]

\* what a goroutine panics with: a string, or an error value
StringValue(s) == [type |-> "string", StatusCode |-> 0, Msg |-> s, Internal |-> Nil]
Panic(v) == [type |-> "panic", StatusCode |-> 0, Msg |-> <<>>, Internal |-> v]
IsPanic(r) == r.type = "panic"
IsError(r) == ~IsNil(r) /\ ~IsPanic(r)

HandlerErrors ==
    { HTTPError(StatusNotFound, <<"not found">>, Nil), OpaqueError(<<"boom">>, Nil) }
Panics ==
    { Panic(StringValue(<<"oops">>)), Panic(OpaqueError(<<"broken pipe">>, Nil)) }
HandlerResults == {Nil} \cup HandlerErrors \cup Panics

ErrCall(by, err) ==
    [by |-> by, err |-> err, committed |-> c.response.Committed, handler |-> ErrHandler]

\* an error handler a caller installs in place of the default one: it
\* answers every failure with the same plain text
CustomErrHandler(err, ctx) ==
    IF ctx.response.Committed THEN ctx
    ELSE String(ctx, StatusInternalServerError, <<"custom">>)

\* faulty variant: the default handler is called whatever is installed
HandledByDefault(ctx, err) == [c |-> DefaultErrHandlerFunc(err, ctx), errs |-> <<err>>]

\* z.ErrHandler(c, err): the Context it leaves and the failure it was given
Handled(ctx, err) ==
    [c |-> IF ErrHandler = "DefaultErrHandlerFunc" THEN DefaultErrHandlerFunc(err, ctx)
           ELSE CustomErrHandler(err, ctx),
     errs |-> <<err>>]
\* no call of the error handler
NotHandled(ctx) == [c |-> ctx, errs |-> <<>>]

\* the calls of the error handler made by one step
ErrCalls(by, h) == [i \in 1..Len(h.errs) |-> ErrCall(by, h.errs[i])]

Layers == chain[idx]
At(state, k) == pc = state /\ idx \in 1..Len(chain) /\ chain[idx].k = k

MwKind(id) ==
    IF id \in {"Logger", "Recovery", "RequestID", "JWT"} THEN id
    ELSE IF id \in {"CORS", "CORS:credentials", "CORS:list", "CORS:func"} THEN "CORS"
    ELSE IF id \in {"Static", "Static:html5"} THEN "Static"
    ELSE "plain"

\* the head of Zest.ServeHTTP, for a request drawn from the given sets: a
\* Context from the pool, reset and bound to the engine, and the global
\* middleware composed around the mux
Serve(methods, paths, headers, addrs, values, globals) ==
    /\ serving /\ pc = "idle"
    /\ \E m \in methods, path \in paths, h \in headers, a \in addrs :
          LET ctx == IF pool = <<>> THEN NewContext ELSE Head(pool)
              r == [Request(m, path) EXCEPT !.Header = h, !.RemoteAddr = a]
          IN  c' = [reset(ctx, NewWriter(m), r)
                        EXCEPT !.zest = TRUE, !.Request.values = values]
    /\ pool' = IF pool = <<>> THEN pool ELSE Tail(pool)
    /\ chain' = use(<<Layer("mux", "")>>, globals)
    /\ idx' = 1
    /\ pc' = "down"
    /\ ret' = Nil
    /\ nops' = 0
    /\ log' = <<>>
    /\ matched' = 0
    /\ errCalls' = <<>>
    /\ logged' = <<>>
    /\ UNCHANGED <<last, configVars>>

ServeHTTPOf(methods, paths, headers, addrs) ==
    Serve(methods, paths, headers, addrs, {"contextKey"}, Elems(heap, middlewares))

ServeHTTP == ServeHTTPOf(ServedMethods, RequestPaths, {NoRequestHeader}, {<<>>})

\* a middleware runs up to its call of next
EnterMiddleware ==
    /\ At("down", "mw")
    /\ MwKind(chain[idx].id) \in {"plain", "Logger", "Recovery"}
    /\ log' = Append(log, Event("before", chain[idx].id, Nil))
    /\ idx' = idx + 1
    /\ UNCHANGED <<c, pc, nops, last, pool, chain, ret, matched, errCalls, logged, configVars>>

\* z.mux.ServeHTTP finds a registered route for ctx.Request and notes the
\* match in that request, which the Context still points to; the route's
\* closure syncs the Context and calls the route's composed handler
DispatchRoute ==
    /\ At("down", "mux")
    /\ LET i == Resolve(routes, c.Request.Method, c.Request.Path)
           r == [c.Request EXCEPT !.pat = i]
       IN  /\ routes[i].method # ""
           /\ matched' = i
           /\ chain' = SubSeq(chain, 1, idx) \o routes[i].final
           /\ c' = sync([c EXCEPT !.Request = r], c.response.ResponseWriter, r)
    /\ idx' = idx + 2
    /\ UNCHANGED <<pc, nops, last, pool, ret, log, errCalls, logged, configVars>>

\* z.mux.ServeHTTP finds only the catch-all: its closure syncs the Context
\* and hands a 404 to the error handler
DispatchNotFound ==
    /\ At("down", "mux")
    /\ LET i == Resolve(routes, c.Request.Method, c.Request.Path)
           err == HTTPError(StatusNotFound, <<"not found">>, Nil)
           r == [c.Request EXCEPT !.pat = i]
           h == Handled(sync([c EXCEPT !.Request = r], c.response.ResponseWriter, r),
                        err)
       IN  /\ routes[i].method = ""
           /\ matched' = i
           /\ c' = h.c
           /\ errCalls' = errCalls \o ErrCalls("notfound", h)
    /\ pc' = "up"
    /\ UNCHANGED <<nops, last, pool, chain, idx, ret, log, logged, configVars>>

\* the terminal handler calls a response helper
HandlerCall ==
    /\ At("down", "H")
    /\ nops < MaxHandlerOps
    /\ c' = String(c, StatusOK, <<"hello">>)
    /\ nops' = nops + 1
    /\ UNCHANGED <<pc, last, pool, chain, idx, ret, log, matched, errCalls, logged, configVars>>

\* the terminal handler calls c.Set(key, val)
HandlerSet ==
    /\ At("down", "H")
    /\ nops < MaxHandlerOps
    /\ \E k \in Keys \cup {"requestID"}, v \in Values :
          /\ c' = Set(c, k, v)
          /\ log' = Append(log, Event("Set", k, StringValue(v)))
    /\ nops' = nops + 1
    /\ UNCHANGED <<pc, last, pool, chain, idx, ret, matched, errCalls, logged, configVars>>

\* the terminal handler calls c.SetHeader("X-Request-ID", value)
HandlerSetHeader ==
    /\ At("down", "H")
    /\ nops < MaxHandlerOps
    /\ \E v \in {"mine", ""} :
          /\ c' = SetHeader(c, "X-Request-ID", v)
          /\ log' = Append(log, Event("SetHeader", "X-Request-ID", StringValue(v)))
    /\ nops' = nops + 1
    /\ UNCHANGED <<pc, last, pool, chain, idx, ret, matched, errCalls, logged, configVars>>

\* the terminal handler returns nil or a failure, or panics
HandlerReturnOf(results) ==
    /\ At("down", "H")
    /\ \E r \in results :
          /\ ret' = r
          /\ log' = Append(log, Event("H", chain[idx].id, r))
    /\ idx' = idx - 1
    /\ pc' = "up"
    /\ UNCHANGED <<c, nops, last, pool, chain, matched, errCalls, logged, configVars>>

HandlerReturn == HandlerReturnOf(HandlerResults)

\* next returns to a middleware that only passes the result on; a panic
\* unwinds through it
LeaveMiddleware ==
    /\ At("up", "mw")
    /\ MwKind(chain[idx].id) \in {"plain", "RequestID", "JWT", "CORS"}
    /\ log' = IF IsPanic(ret) THEN log
              ELSE Append(log, Event("after", chain[idx].id, ret))
    /\ idx' = idx - 1
    /\ UNCHANGED <<c, pc, nops, last, pool, chain, ret, matched, errCalls, logged, configVars>>

\* RequestID (src/unnamed/part_007:42-60) up to its call of next: the id is
\* the request's X-Request-ID header or, without one, a generated id; it
\* goes to the response header, into a copy of the request that replaces
\* c.Request, and into the store
RequestIDBefore(ctx, generated) ==
    LET given == ctx.Request.Header["X-Request-ID"]
        rid == IF given = <<>> THEN generated ELSE given[1]
        c1 == SetHeader(ctx, "X-Request-ID", rid)
        c2 == [c1 EXCEPT !.Request.values = @ \cup {"requestID"}]
    IN  Set(c2, "requestID", rid)

EnterRequestID ==
    /\ At("down", "mw")
    /\ MwKind(chain[idx].id) = "RequestID"
    /\ c' = RequestIDBefore(c, "generated")
    /\ log' = log \o <<Event("before", chain[idx].id, Nil),
                        Event("Set", "requestID", StringValue(Get(c', "requestID")))>>
    /\ idx' = idx + 1
    /\ UNCHANGED <<pc, nops, last, pool, chain, ret, matched, errCalls, logged, configVars>>

\* strings.SplitN(s, " ", 2)
SplitN2(s) ==
    IF \E i \in 1..Len(s) : s[i] = " "
    THEN LET i == CHOOSE i \in 1..Len(s) : s[i] = " " /\ \A j \in 1..(i - 1) : s[j] # " "
         IN  <<SubSeq(s, 1, i - 1), SubSeq(s, i + 1, Len(s))>>
    ELSE <<s>>

\* j.Parse(tokenString) of the JWTer of the model: one token is valid
Parse(tokenString) ==
    IF tokenString = <<"good">> THEN [claims |-> [sub |-> "alice"], err |-> Nil]
    ELSE [claims |-> <<>>, err |-> OpaqueError(<<"token invalid">>, Nil)]

\* faulty variant: a token that does not parse is let through
JWTLenient(ctx, skip) == [next |-> TRUE, err |-> Nil, c |-> ctx]

\* JWT (src/unnamed/part_009:26-55) up to its return or its call of next:
\* whether it calls next, the failure it returns otherwise, and the Context
JWT(ctx, skip) ==
    LET authHeader == ctx.Request.Header["Authorization"]
        parts == SplitN2(authHeader)
        deny(msg) == [next |-> FALSE, err |-> HTTPError(StatusUnauthorized, msg, Nil),
                      c |-> ctx]
    IN  IF skip THEN [next |-> TRUE, err |-> Nil, c |-> ctx]
        ELSE IF authHeader = <<>> THEN deny(<<"missing token">>)
        ELSE IF Len(parts) # 2 \/ parts[1] # <<"Bearer">>
        THEN deny(<<"invalid token format">>)
        ELSE LET p == Parse(parts[2])
             IN  IF ~IsNil(p.err) THEN deny(ErrorText(p.err))
                 ELSE [next |-> TRUE, err |-> Nil,
                       c |-> [ctx EXCEPT !.store = p.claims @@ @]]

EnterJWT ==
    /\ At("down", "mw")
    /\ MwKind(chain[idx].id) = "JWT"
    /\ \E skip \in BOOLEAN :
          LET j == JWT(c, skip)
          IN  /\ c' = j.c
              /\ IF j.next
                 THEN /\ log' = log \o <<Event(IF skip THEN "skip" ELSE "auth", "JWT", Nil),
                                          Event("before", chain[idx].id, Nil)>>
                      /\ idx' = idx + 1
                      /\ UNCHANGED <<pc, ret>>
                 ELSE /\ log' = Append(log, Event("deny", chain[idx].id, j.err))
                      /\ idx' = idx - 1
                      /\ pc' = "up"
                      /\ ret' = j.err
    /\ UNCHANGED <<nops, last, pool, chain, matched, errCalls, logged, configVars>>

\* Context.Error(err)
ContextError(ctx, err) == IF ctx.zest THEN Handled(ctx, err) ELSE NotHandled(ctx)

\* faulty variant: Logger hands nothing to the error handler
LoggerAfterSilent(ctx, err) == NotHandled(ctx)

\* Logger after next returned: a failure goes to the error handler first
LoggerAfter(ctx, err) == IF IsError(err) THEN ContextError(ctx, err) ELSE NotHandled(ctx)

\* next returns to Logger (src/middleware/logger.go:190-240): it reports a
\* failure through Context.Error, writes its line and returns the failure
LeaveLogger ==
    /\ At("up", "mw")
    /\ MwKind(chain[idx].id) = "Logger"
    /\ IF IsPanic(ret)
       THEN UNCHANGED <<c, log, errCalls, logged>>
       ELSE /\ c' = LoggerAfter(c, ret).c
            /\ errCalls' = errCalls \o ErrCalls("Logger", LoggerAfter(c, ret))
            /\ logged' = Append(logged, [Status |-> c'.response.Status,
                                         Size |-> c'.response.Size,
                                         Error |-> ret])
            /\ log' = Append(log, Event("after", chain[idx].id, ret))
    /\ idx' = idx - 1
    /\ UNCHANGED <<pc, nops, last, pool, chain, ret, matched, configVars>>

\* the text of a panic value, fmt.Sprintf("%v", r)
PanicText(v) == IF v.type = "string" THEN v.Msg ELSE ErrorText(v)

\* strings.ToLower, on the tokens of a text
ToLower(s) ==
    [i \in 1..Len(s) |-> IF s[i] = "Broken Pipe" THEN "broken pipe"
                         ELSE IF s[i] = "Connection Reset By Peer"
                         THEN "connection reset by peer"
                         ELSE s[i]]

IsBrokenPipe(v) ==
    /\ v.type # "string"
    /\ \E i \in 1..Len(ErrorText(v)) :
          ToLower(ErrorText(v))[i] \in {"broken pipe", "connection reset by peer"}

\* faulty variant: a panic passes through Recovery
RecoveredNothing(r) == r

\* what Recovery returns (src/middleware/recovery.go:44-87)
Recovered(r) ==
    IF ~IsPanic(r) THEN r
    ELSE IF IsBrokenPipe(r.Internal) THEN Nil
    ELSE HTTPError(StatusInternalServerError, PanicText(r.Internal), Nil)

LeaveRecovery ==
    /\ At("up", "mw")
    /\ MwKind(chain[idx].id) = "Recovery"
    /\ ret' = Recovered(ret)
    /\ log' = Append(log, Event("after", chain[idx].id, ret))
    /\ idx' = idx - 1
    /\ UNCHANGED <<c, pc, nops, last, pool, chain, matched, errCalls, logged, configVars>>

\* the closure Zest.handle registers, after finalHandler returned
RouteClosure(ctx, err) == IF IsError(err) THEN Handled(ctx, err) ELSE NotHandled(ctx)

\* the route's composed handler returns to the closure of Zest.handle, which
\* hands a failure to the error handler and returns nothing
LeaveRoute ==
    /\ At("up", "route")
    /\ c' = RouteClosure(c, ret).c
    /\ errCalls' = errCalls \o ErrCalls("route", RouteClosure(c, ret))
    /\ ret' = IF IsPanic(ret) THEN ret ELSE Nil
    /\ log' = Append(log, Event("route", "", ret))
    /\ idx' = idx - 1
    /\ UNCHANGED <<pc, nops, last, pool, chain, matched, logged, configVars>>

\* z.mux.ServeHTTP returns to the innermost global handler, which returns nil
LeaveMux ==
    /\ At("up", "mux")
    /\ ret' = IF IsPanic(ret) THEN ret ELSE Nil
    /\ idx' = idx - 1
    /\ UNCHANGED <<c, pc, nops, last, pool, chain, log, matched, errCalls, logged, configVars>>

\* faulty variant: a Put that a panic skips
PutUnlessPanic(p, ctx, r) == IF IsPanic(r) THEN p ELSE Append(p, ctx)

\* defer z.pool.Put(c): runs when ServeHTTP returns and when it panics
DeferredPut(p, ctx, r) == Append(p, ctx)

\* the tail of Zest.ServeHTTP: a failure of the global chain goes to the
\* error handler, and the deferred Put returns the Context to the pool
ServeHTTPReturn ==
    /\ pc = "up" /\ idx = 0
    /\ LET h == IF IsError(ret) THEN Handled(c, ret) ELSE NotHandled(c)
       IN  /\ c' = h.c
           /\ errCalls' = errCalls \o ErrCalls("engine", h)
    /\ log' = Append(log, Event("engine", "", ret))
    /\ pool' = DeferredPut(pool, c', ret)
    /\ pc' = "idle"
    /\ UNCHANGED <<nops, last, chain, idx, ret, matched, logged, configVars>>

Next ==
    \/ Use
    \/ ZestGroup
    \/ GroupUse
    \/ GroupGroup
    \/ ZestHandle
    \/ GroupHandle
    \/ Run
    \/ ServeHTTP
    \/ EnterMiddleware
    \/ DispatchRoute
    \/ DispatchNotFound
    \/ HandlerCall
    \/ HandlerReturn
    \/ LeaveMiddleware
    \/ LeaveLogger
    \/ LeaveRecovery
    \/ LeaveRoute
    \/ LeaveMux
    \/ ServeHTTPReturn

Spec == Init /\ [][Next]_vars

(***************************************************************************)
(* SpecGroups: the configuration calls on groups alone (Zest.Group,        *)
(* Group.Use, Group.Group, Group.handle), as many as it takes for a        *)
(* group's slice to have spare capacity.                                   *)
(***************************************************************************)
InitGroups == Fresh /\ limit = MaxGroupCalls

NextGroups ==
    \/ ZestGroup
    \/ GroupUse
    \/ GroupGroup
    \/ GroupHandle

SpecGroups == InitGroups /\ [][NextGroups]_vars

(***************************************************************************)
(* SpecJoin: groups and routes whose prefixes and patterns come with and   *)
(* without leading and trailing slashes.                                   *)
(***************************************************************************)
PrefixForms == {<<Slash, "api">>, <<Slash, "api", Slash>>}
SubPrefixForms == {<<Slash, "v1">>, <<"v1">>}
PatternForms == {<<Slash, "hello">>, <<"hello">>}

InitJoin == Fresh /\ limit = MaxJoinCalls

NextJoin ==
    \/ ZestGroupOf(PrefixForms, {<<>>})
    \/ GroupGroupOf(SubPrefixForms, {<<>>})
    \/ GroupHandleOf(PatternForms, {<<>>})

SpecJoin == InitJoin /\ [][NextJoin]_vars

(***************************************************************************)
(* SpecMux: routes with literal, parameter and trailing-wildcard segments  *)
(* registered in any order, then requests resolved by the mux.             *)
(***************************************************************************)
MuxPatterns ==
    { <<Slash, "users", Slash, "{name}">>, <<Slash, "users", Slash, "me">>,
      <<Slash, "assets", Slash, "{path...}">>, <<Slash, "assets", Slash, "logo.png">> }
MuxPaths ==
    { <<Slash, "users", Slash, "me">>, <<Slash, "users", Slash, "bob">>,
      <<Slash, "assets", Slash, "logo.png">>,
      <<Slash, "assets", Slash, "css", Slash, "a.css">> }

\* faulty variant: Param reads a request the mux did not match
ParamOfUnmatched(ctx, key) == PathValue(<<>>, <<>>, key)

\* Context.Param(key): c.Request.PathValue(key)
Param(ctx, key) ==
    IF ctx.Request.pat = 0 THEN ""
    ELSE PathValue(Segments(routes[ctx.Request.pat].pattern),
                   Segments(ctx.Request.Path), key)

InitMux == Fresh /\ limit = MaxMuxCalls

NextMux ==
    \/ ZestHandleOf(MuxPatterns, {<<>>})
    \/ SetErrHandler
    \/ RecoverRegistration
    \/ Run
    \/ ServeHTTPOf({MethodGet}, MuxPaths, {NoRequestHeader}, {<<>>})
    \/ DispatchRoute
    \/ DispatchNotFound
    \/ HandlerCall
    \/ HandlerReturn
    \/ LeaveRoute
    \/ LeaveMux
    \/ ServeHTTPReturn

SpecMux == InitMux /\ [][NextMux]_vars

(***************************************************************************)
(* SpecReqID: RequestID as global middleware, the route /api/users/{name}  *)
(* registered directly or through the group /api, and handlers that call   *)
(* Set and SetHeader.                                                      *)
(***************************************************************************)
UsersName == <<Slash, "users", Slash, "{name}">>
UsersAlice == <<Slash, "api", Slash, "users", Slash, "alice">>

InitReqID == Fresh /\ limit = MaxReqIDCalls

NextReqID ==
    \/ UseOf({"RequestID"})
    \/ ZestGroupOf({<<Slash, "api">>}, {<<>>})
    \/ GroupHandleOf({UsersName}, NoneOrOne({"R"}))
    \/ ZestHandleOf({<<Slash, "api">> \o UsersName}, {<<>>})
    \/ Run
    \/ ServeHTTPOf({MethodGet}, {UsersAlice},
                   {NoRequestHeader, [NoRequestHeader EXCEPT !["X-Request-ID"] = <<"client">>]},
                   {<<>>})
    \/ EnterRequestID
    \/ EnterMiddleware
    \/ DispatchRoute
    \/ DispatchNotFound
    \/ HandlerCall
    \/ HandlerSet
    \/ HandlerSetHeader
    \/ HandlerReturn
    \/ LeaveMiddleware
    \/ LeaveRoute
    \/ LeaveMux
    \/ ServeHTTPReturn

SpecReqID == InitReqID /\ [][NextReqID]_vars

(***************************************************************************)
(* SpecJWT: JWT as global middleware in front of one route, and requests   *)
(* with and without a usable Authorization header.                         *)
(***************************************************************************)
Authorizations ==
    { <<>>, <<"Bearer", " ", "good">>, <<"Bearer", " ", "bad">>, <<"Bearer">>,
      <<"Basic", " ", "good">>, <<"bearer", " ", "good">>,
      <<"Bearer", " ", "good", " ", "x">> }

InitJWT == Fresh /\ limit = MaxJWTCalls

NextJWT ==
    \/ UseOf({"JWT"})
    \/ ZestHandleOf(Patterns, {<<>>})
    \/ Run
    \/ ServeHTTPOf({MethodGet}, Patterns,
                   { [NoRequestHeader EXCEPT !["Authorization"] = a] : a \in Authorizations },
                   {<<>>})
    \/ EnterJWT
    \/ DispatchRoute
    \/ DispatchNotFound
    \/ HandlerCall
    \/ HandlerReturn
    \/ LeaveMiddleware
    \/ LeaveRoute
    \/ LeaveMux
    \/ ServeHTTPReturn

SpecJWT == InitJWT /\ [][NextJWT]_vars

(***************************************************************************)
(* CORS (src/middleware/cors.go).  A middleware id names the configuration *)
(* CORS was called with.                                                   *)
(***************************************************************************)
\* strings.Join(elems, ", ")
RECURSIVE Join(_)
Join(elems) ==
    IF elems = <<>> THEN ""
    ELSE IF Len(elems) = 1 THEN elems[1]
    ELSE elems[1] \o ", " \o Join(Tail(elems))

DefaultCORSConfig ==
    [AllowOrigins |-> <<"*">>,
     HasOriginFunc |-> FALSE,
     OriginFuncAllows |-> {},
     AllowMethods |-> <<"GET", "POST", "PUT", "PATCH", "DELETE", "OPTIONS">>,
     AllowHeaders |-> <<"Origin", "Content-Type", "Authorization">>,
     ExposeHeaders |-> <<>>,
     AllowCredentials |-> FALSE,
     MaxAge |-> "86400"]

\* the configuration behind a middleware id: the default one, one with
\* credentials, one with a list of origins and exposed headers, one with an
\* AllowOriginFunc
CORSConfigOf(id) ==
    IF id = "CORS:credentials" THEN [DefaultCORSConfig EXCEPT !.AllowCredentials = TRUE]
    ELSE IF id = "CORS:list"
    THEN [DefaultCORSConfig EXCEPT !.AllowOrigins = <<"https://a", "https://b">>,
                                   !.ExposeHeaders = <<"X-Total">>]
    ELSE IF id = "CORS:func"
    THEN [DefaultCORSConfig EXCEPT !.HasOriginFunc = TRUE,
                                   !.OriginFuncAllows = {"https://a"}]
    ELSE DefaultCORSConfig

\* the loop over cfg.AllowOrigins: the first entry that is "*" or the origin
AllowOriginOf(cfg, origin) ==
    IF cfg.HasOriginFunc
    THEN IF origin \in cfg.OriginFuncAllows THEN origin ELSE ""
    ELSE LET hits == { i \in 1..Len(cfg.AllowOrigins) :
                          cfg.AllowOrigins[i] \in {"*", origin} }
         IN  IF hits = {} THEN ""
             ELSE LET o == cfg.AllowOrigins[CHOOSE i \in hits : \A j \in hits : i <= j]
                  IN  IF cfg.AllowCredentials /\ o = "*" THEN origin ELSE o

\* the headers CORS sets for every request of an allowed origin
CORSHeaders(cfg, ctx, allowOrigin) ==
    LET c1 == SetHeader(ctx, "Access-Control-Allow-Origin", allowOrigin)
        c2 == IF Len(cfg.AllowOrigins) > 1 \/ cfg.HasOriginFunc
              THEN SetHeader(c1, "Vary", "Origin") ELSE c1
        c3 == IF cfg.AllowCredentials
              THEN SetHeader(c2, "Access-Control-Allow-Credentials", "true") ELSE c2
    IN  IF Join(cfg.ExposeHeaders) # ""
        THEN SetHeader(c3, "Access-Control-Expose-Headers", Join(cfg.ExposeHeaders))
        ELSE c3

\* faulty variant: a preflight request is passed on to next
CORSPassesPreflight(cfg, ctx) ==
    LET origin == HeaderValues(ctx.Request.Header, "Origin")
        allowOrigin == IF origin = <<>> THEN "" ELSE AllowOriginOf(cfg, origin[1])
    IN  IF allowOrigin = "" THEN [next |-> TRUE, c |-> ctx]
        ELSE [next |-> TRUE, c |-> CORSHeaders(cfg, ctx, allowOrigin)]

\* CORS (src/middleware/cors.go:91-152) up to its return or its call of
\* next: whether it calls next, and the Context
CORS(cfg, ctx) ==
    LET given == HeaderValues(ctx.Request.Header, "Origin")
        origin == IF given = <<>> THEN "" ELSE given[1]
        allowOrigin == IF origin = "" THEN "" ELSE AllowOriginOf(cfg, origin)
        c1 == CORSHeaders(cfg, ctx, allowOrigin)
        c2 == SetHeader(c1, "Access-Control-Allow-Methods", Join(cfg.AllowMethods))
        c3 == SetHeader(c2, "Access-Control-Allow-Headers", Join(cfg.AllowHeaders))
        c4 == SetHeader(c3, "Access-Control-Max-Age", cfg.MaxAge)
    IN  IF allowOrigin = "" THEN [next |-> TRUE, c |-> ctx]
        ELSE IF ctx.Request.Method = MethodOptions
        THEN [next |-> FALSE, c |-> NoContent(c4, StatusNoContent)]
        ELSE [next |-> TRUE, c |-> c1]

EnterCORS ==
    /\ At("down", "mw")
    /\ MwKind(chain[idx].id) = "CORS"
    /\ LET r == CORS(CORSConfigOf(chain[idx].id), c)
       IN  /\ c' = r.c
           /\ IF r.next
              THEN /\ log' = Append(log, Event("before", chain[idx].id, Nil))
                   /\ idx' = idx + 1
                   /\ UNCHANGED <<pc, ret>>
              ELSE /\ log' = Append(log, Event("preflight", chain[idx].id, Nil))
                   /\ idx' = idx - 1
                   /\ pc' = "up"
                   /\ ret' = Nil
    /\ UNCHANGED <<nops, last, pool, chain, matched, errCalls, logged, configVars>>

(***************************************************************************)
(* SpecCORS: CORS registered globally under each configuration, requests   *)
(* with GET and OPTIONS, without an Origin header and with two origins.    *)
(***************************************************************************)
CORSIds == {"CORS", "CORS:credentials", "CORS:list", "CORS:func"}

Origins == {<<>>, <<"https://a">>, <<"https://evil">>}

InitCORS == Fresh /\ limit = MaxCORSCalls

NextCORS ==
    \/ UseOf(CORSIds)
    \/ ZestHandleOf(Patterns, {<<>>})
    \/ Run
    \/ ServeHTTPOf({MethodGet, MethodOptions}, Patterns,
                   { [NoRequestHeader EXCEPT !["Origin"] = o] : o \in Origins },
                   {<<>>})
    \/ EnterCORS
    \/ DispatchRoute
    \/ DispatchNotFound
    \/ HandlerCall
    \/ HandlerReturn
    \/ LeaveMiddleware
    \/ LeaveRoute
    \/ LeaveMux
    \/ ServeHTTPReturn

SpecCORS == InitCORS /\ [][NextCORS]_vars

(***************************************************************************)
(* SpecRecovery: Logger and Recovery around one route whose handler may    *)
(* panic with a string or with an error, among them errors of a broken     *)
(* connection.                                                             *)
(***************************************************************************)
RecoveryPanics ==
    { Panic(StringValue(<<"oops">>)),
      Panic(StringValue(<<"broken pipe">>)),
      Panic(OpaqueError(<<"boom">>, Nil)),
      Panic(OpaqueError(<<"broken pipe">>, Nil)),
      Panic(OpaqueError(<<"Broken Pipe">>, Nil)),
      Panic(OpaqueError(<<"write: ", "connection reset by peer">>, Nil)) }

RecoveryResults == {Nil} \cup HandlerErrors \cup RecoveryPanics

InitRecovery == Fresh /\ limit = MaxRecoveryCalls

NextRecovery ==
    \/ UseOf({"Logger", "Recovery"})
    \/ ZestHandleOf(Patterns, NoneOrOne({"R"}))
    \/ Run
    \/ ServeHTTPOf({MethodGet}, RequestPaths, {NoRequestHeader}, {<<>>})
    \/ EnterMiddleware
    \/ DispatchRoute
    \/ DispatchNotFound
    \/ HandlerCall
    \/ HandlerReturnOf(RecoveryResults)
    \/ LeaveMiddleware
    \/ LeaveLogger
    \/ LeaveRecovery
    \/ LeaveRoute
    \/ LeaveMux
    \/ ServeHTTPReturn

SpecRecovery == InitRecovery /\ [][NextRecovery]_vars

(***************************************************************************)
(* Context.ClientIP.  A header value or an address is a sequence of tokens: *)
(* an address or port, a space, a comma, a colon, a bracket.                *)
(***************************************************************************)
\* http.Header.Get: the first value of the header, "" when it has none
HeaderGet(r, k) == IF r.Header[k] = <<>> THEN <<>> ELSE r.Header[k][1]

\* strings.Cut(s, sep) as ClientIP uses it: the text before the first sep,
\* all of s when sep does not occur
CutBefore(s, sep) ==
    LET hits == { i \in 1..Len(s) : s[i] = sep }
    IN  IF hits = {} THEN s
        ELSE SubSeq(s, 1, (CHOOSE i \in hits : \A j \in hits : i <= j) - 1)

\* strings.TrimSpace
TrimSpace(s) ==
    LET keep == { i \in 1..Len(s) : s[i] # " " }
    IN  IF keep = {} THEN <<>>
        ELSE SubSeq(s, CHOOSE i \in keep : \A j \in keep : i <= j,
                       CHOOSE i \in keep : \A j \in keep : j <= i)

\* net.SplitHostPort: the host of "host:port" or "[host]:port"
SplitHostPort(hostport) ==
    LET colons == { i \in 1..Len(hostport) : hostport[i] = ":" }
        i == CHOOSE x \in colons : \A y \in colons : y <= x
        ends == { j \in 1..Len(hostport) : hostport[j] = "]" }
        end == CHOOSE x \in ends : \A y \in ends : x <= y
        failed == [host |-> <<>>, err |-> TRUE]
    IN  IF colons = {} THEN failed
        ELSE IF hostport[1] = "["
        THEN IF ends = {} \/ end + 1 # i THEN failed
             ELSE [host |-> SubSeq(hostport, 2, end - 1), err |-> FALSE]
        ELSE IF \E j \in colons : j < i THEN failed
             ELSE [host |-> SubSeq(hostport, 1, i - 1), err |-> FALSE]

\* faulty variant: X-Real-Ip is looked at before X-Forwarded-For
ClientIPPrefersRealIP(ctx) ==
    LET real == TrimSpace(HeaderGet(ctx.Request, "X-Real-Ip"))
        forwarded == TrimSpace(CutBefore(HeaderGet(ctx.Request, "X-Forwarded-For"), ","))
        peer == SplitHostPort(TrimSpace(ctx.Request.RemoteAddr))
    IN  IF real # <<>> THEN real
        ELSE IF forwarded # <<>> THEN forwarded
        ELSE IF ~peer.err THEN peer.host
        ELSE <<>>

\* c.ClientIP()
ClientIP(ctx) ==
    LET forwarded == TrimSpace(CutBefore(HeaderGet(ctx.Request, "X-Forwarded-For"), ","))
        clientIP == IF forwarded = <<>>
                    THEN TrimSpace(HeaderGet(ctx.Request, "X-Real-Ip"))
                    ELSE forwarded
        peer == SplitHostPort(TrimSpace(ctx.Request.RemoteAddr))
    IN  IF clientIP # <<>> THEN clientIP
        ELSE IF ~peer.err THEN peer.host
        ELSE <<>>

\* the terminal handler calls c.ClientIP()
HandlerClientIP ==
    /\ At("down", "H")
    /\ nops < MaxHandlerOps
    /\ log' = Append(log, Event("ClientIP", "H", StringValue(ClientIP(c))))
    /\ nops' = nops + 1
    /\ UNCHANGED <<c, pc, last, pool, chain, idx, ret, matched, errCalls, logged, configVars>>

(***************************************************************************)
(* SpecClientIP: one route whose handler asks for the client's address,    *)
(* requested with and without X-Forwarded-For and X-Real-Ip, over IPv4 and *)
(* IPv6 connections.                                                       *)
(***************************************************************************)
ForwardedFors ==
    { <<>>,
      << <<"1.1.1.1">> >>,
      << <<" ", "1.1.1.1", " ", ",", " ", "2.2.2.2">> >>,
      << <<" ", ",", "2.2.2.2">> >>,
      << <<" ">> >> }

RealIPs == { <<>>, << <<" ", "3.3.3.3", " ">> >>, << <<" ">> >> }

\* the addresses net/http reports for a TCP connection
RemoteAddrs == { <<"4.4.4.4", ":", "80">>, <<"[", "::1", "]", ":", "80">> }

InitClientIP == Fresh /\ limit = MaxClientIPCalls

NextClientIP ==
    \/ ZestHandleOf(Patterns, {<<>>})
    \/ Run
    \/ ServeHTTPOf({MethodGet}, Patterns,
                   { [NoRequestHeader EXCEPT !["X-Forwarded-For"] = f, !["X-Real-Ip"] = x] :
                         f \in ForwardedFors, x \in RealIPs },
                   RemoteAddrs)
    \/ DispatchRoute
    \/ HandlerCall
    \/ HandlerClientIP
    \/ HandlerReturn
    \/ LeaveRoute
    \/ LeaveMux
    \/ ServeHTTPReturn

SpecClientIP == InitClientIP /\ [][NextClientIP]_vars

(***************************************************************************)
(* SpecEarlier: the engine of the earlier snapshot (src/zest.go:46-124) and *)
(* of package engx (src/engx.go:46-121).  handle composes the global and   *)
(* the route's middleware around the handler when the route is registered, *)
(* ServeHTTP hands the request to the mux, and the catch-all calls the      *)
(* error handler itself.                                                   *)
(***************************************************************************)
\* handle(method, pattern, handler, mws...) of the earlier engine:
\* finalMws := append(z.middlewares, mws...)
EarlierHandleOf(patterns, mwss) ==
    /\ ConfigCall
    /\ \E pattern \in patterns, xs \in mwss :
          LET f == GroupChain(heap, [middlewares |-> middlewares], xs)
          IN  /\ Configured(f.heap, middlewares, groups)
              /\ Register(MethodGet, pattern, f.mws, 0, <<>>, <<>>, xs)
    /\ UNCHANGED <<serving, requestVars>>

\* ServeHTTP of the earlier engine: z.mux.ServeHTTP(w, r); the closure the
\* mux picks takes a Context from the pool and resets it
EarlierServeHTTPOf(paths, headers) ==
    Serve({MethodGet}, paths, headers, {<<>>}, {}, <<>>)

InitEarlier == Fresh /\ limit = MaxEarlierCalls

NextEarlier ==
    \/ UseOf({"G", "RequestID"})
    \/ EarlierHandleOf(Patterns, NoneOrOne({"R"}))
    \/ Run
    \/ EarlierServeHTTPOf(RequestPaths, {NoRequestHeader})
    \/ EnterMiddleware
    \/ EnterRequestID
    \/ DispatchRoute
    \/ DispatchNotFound
    \/ HandlerCall
    \/ HandlerReturn
    \/ LeaveMiddleware
    \/ LeaveRoute
    \/ LeaveMux
    \/ ServeHTTPReturn

SpecEarlier == InitEarlier /\ [][NextEarlier]_vars

(***************************************************************************)
(* Context.Bind (src/bind.go).  What the binders find in the request is    *)
(* given by the destination: whether the path values, the query and the    *)
(* body fit its fields, and whether its Validate accepts the result.       *)
(***************************************************************************)
\* (*HTTPError).Wrap(err): the failure with err as its cause
Wrap(he, err) == [he EXCEPT !.Internal = err]

BindFailure(err) == Wrap(HTTPError(StatusBadRequest, <<>>, Nil), err)

\* bindPathValues
bindPathValues(req, dst) ==
    IF dst.param THEN Nil ELSE BindFailure(OpaqueError(<<"param">>, Nil))

\* bindQueryParams
bindQueryParams(req, dst) ==
    IF dst.query THEN Nil ELSE BindFailure(OpaqueError(<<"query">>, Nil))

\* the media types bindBody decodes: JSON, XML and the two form encodings
BodyMediaTypes ==
    { <<MIMEApplicationJSON>>, <<"application/xml">>, <<"text/xml">>,
      <<"application/x-www-form-urlencoded">>, <<"multipart/form-data">> }

\* bindBody
bindBody(req, dst) ==
    LET mediaType == TrimSpace(CutBefore(HeaderGet(req, "Content-Type"), ";"))
    IN  IF req.ContentLength = 0 THEN Nil
        ELSE IF mediaType \notin BodyMediaTypes
        THEN HTTPError(StatusUnsupportedMediaType, <<>>, Nil)
        ELSE IF dst.body THEN Nil
        ELSE BindFailure(OpaqueError(<<"body">>, Nil))

\* dst.Validate()
Validate(dst) == IF dst.valid THEN Nil ELSE OpaqueError(<<"invalid">>, Nil)

\* faulty variant: the query is bound whatever the method
BindQueryAlways(ctx, dst) ==
    LET req == ctx.Request
        p == bindPathValues(req, dst)
        q == bindQueryParams(req, dst)
        b == bindBody(req, dst)
        v == Validate(dst)
    IN  IF ~IsNil(p) THEN [err |-> p, steps |-> <<"path">>]
        ELSE IF ~IsNil(q) THEN [err |-> q, steps |-> <<"path", "query">>]
        ELSE IF ~IsNil(b) THEN [err |-> b, steps |-> <<"path", "query", "body">>]
        ELSE IF ~IsNil(v)
        THEN [err |-> HTTPError(StatusUnprocessableEntity, ErrorText(v), Nil),
              steps |-> <<"path", "query", "body", "validate">>]
        ELSE [err |-> Nil, steps |-> <<"path", "query", "body", "validate">>]

\* c.Bind(dst): the failure it returns and the steps it ran
Bind(ctx, dst) ==
    LET req == ctx.Request
        queried == req.Method \in {MethodGet, MethodDelete, MethodHead}
        p == bindPathValues(req, dst)
        q == IF queried THEN bindQueryParams(req, dst) ELSE Nil
        b == bindBody(req, dst)
        v == Validate(dst)
        s1 == <<"path">>
        s2 == IF queried THEN Append(s1, "query") ELSE s1
        s3 == Append(s2, "body")
        s4 == Append(s3, "validate")
    IN  IF ~IsNil(p) THEN [err |-> p, steps |-> s1]
        ELSE IF ~IsNil(q) THEN [err |-> q, steps |-> s2]
        ELSE IF ~IsNil(b) THEN [err |-> b, steps |-> s3]
        ELSE IF ~IsNil(v)
        THEN [err |-> HTTPError(StatusUnprocessableEntity, ErrorText(v), Nil),
              steps |-> s4]
        ELSE [err |-> Nil, steps |-> s4]

(***************************************************************************)
(* SpecBind: a request of each method, with and without a body of each     *)
(* media type, bound once to a destination of each kind.                   *)
(***************************************************************************)
ContentTypes ==
    { <<>>,
      << <<"application/json", ";", " ", "charset=utf-8">> >>,
      << <<"text/xml">> >>,
      << <<"multipart/form-data", ";", " ", "boundary=x">> >>,
      << <<"text/plain">> >> }

\* the Content-Length of a request without a body, with a body of known
\* length, and with a chunked body
ContentLengths == {0, 5, -1}

BindRequests ==
    { [Request(m, <<Slash>>) EXCEPT !.Header["Content-Type"] = t, !.ContentLength = n] :
          m \in {MethodGet, MethodHead, MethodDelete, MethodPost},
          t \in ContentTypes, n \in ContentLengths }

Destinations == [param : BOOLEAN, query : BOOLEAN, body : BOOLEAN, valid : BOOLEAN]

\* a request arrives and reset binds it to the Context
BindReset ==
    /\ \E r \in BindRequests : c' = reset(c, NewWriter(r.Method), r)
    /\ pc' = "handler"
    /\ nops' = 0
    /\ last' = NoCall
    /\ log' = <<>>
    /\ UNCHANGED <<heap, middlewares, groups, routes, nconf, serving, crashed, pool,
                   chain, idx, ret, matched, errCalls, logged, limit, ErrHandler,
                   poolVars>>

\* the handler calls c.Bind(dst)
HandlerBind ==
    /\ pc = "handler" /\ nops = 0
    /\ \E dst \in Destinations :
          LET b == Bind(c, dst)
          IN  /\ log' = <<Event("Bind", Join(b.steps), [dst |-> dst, err |-> b.err])>>
              /\ last' = Call("Bind", 0, b.err)
    /\ nops' = nops + 1
    /\ UNCHANGED <<c, pc, heap, middlewares, groups, routes, nconf, serving, crashed,
                   pool, chain, idx, ret, matched, errCalls, logged, limit, ErrHandler,
                   poolVars>>

NextBind ==
    \/ BindReset
    \/ HandlerBind

SpecBind == Init /\ [][NextBind]_vars

(***************************************************************************)
(* Responses written past the Response wrapper: Context.ResponseWriter,    *)
(* Context.File, Context.Attachment and the route of Zest.Static hand the  *)
(* transport's writer to net/http.                                         *)
(***************************************************************************)
\* c.ResponseWriter(): the writer the Response wraps
ResponseWriter(ctx) == ctx.response.ResponseWriter

\* http.ServeFile / http.FileServer on w: the file with status 200, or the
\* 404 page when there is no such file
ServeFile(w, found) ==
    LET w1 == WriterSetHeader(w, HeaderContentType, "text/plain; charset=utf-8")
    IN  IF found
        THEN WriterWrite(WriterWriteHeader(w1, StatusOK), TextChunk(<<"file">>))
        ELSE WriterWrite(WriterWriteHeader(w1, StatusNotFound),
                         TextChunk(<<"404 page not found">>))

\* c.File(filepath)
File(ctx, found) ==
    [ctx EXCEPT !.response.ResponseWriter = ServeFile(@, found)]

\* c.Attachment(file, name)
Attachment(ctx, found) ==
    LET c1 == SetHeader(ctx, "Content-Disposition", "attachment")
    IN  [c1 EXCEPT !.response.ResponseWriter = ServeFile(@, found)]

\* the handler Zest.Static registers: handler.ServeHTTP(c.ResponseWriter(), c.Request)
StaticHandler(ctx, found) ==
    [ctx EXCEPT !.response.ResponseWriter = ServeFile(ResponseWriter(ctx), found)]

\* a handler's c.ResponseWriter().Write(b)
RawWrite(ctx, b) ==
    [ctx EXCEPT !.response.ResponseWriter = WriterWrite(ResponseWriter(ctx), b)]

RespFile ==
    /\ CanCall
    /\ \E found \in BOOLEAN :
          /\ c' = File(c, found)
          /\ last' = Call("File", 0, Nil)
    /\ nops' = nops + 1
    /\ UNCHANGED <<pc, engineVars>>

RespAttachment ==
    /\ CanCall
    /\ \E found \in BOOLEAN :
          /\ c' = Attachment(c, found)
          /\ last' = Call("Attachment", 0, Nil)
    /\ nops' = nops + 1
    /\ UNCHANGED <<pc, engineVars>>

RespStatic ==
    /\ CanCall
    /\ c.Request.Method \in {MethodGet, MethodHead}
    /\ \E found \in BOOLEAN :
          /\ c' = StaticHandler(c, found)
          /\ last' = Call("Static", 0, Nil)
    /\ nops' = nops + 1
    /\ UNCHANGED <<pc, engineVars>>

RespRawWrite ==
    /\ CanCall
    /\ \E s \in Texts :
          /\ c' = RawWrite(c, TextChunk(s))
          /\ last' = Call("RawWrite", 0, Nil)
    /\ nops' = nops + 1
    /\ UNCHANGED <<pc, engineVars>>

(***************************************************************************)
(* SpecFile: a handler that sends a file, writes to the transport's writer *)
(* or writes through the Response, and the error handler after it.         *)
(***************************************************************************)
NextFile ==
    \/ RespReset
    \/ RespFile
    \/ RespAttachment
    \/ RespStatic
    \/ RespRawWrite
    \/ RespWriteString
    \/ RespErrHandler

SpecFile == InitResp /\ [][NextFile]_vars

(***************************************************************************)
(* The Static middleware (src/unnamed/part_006:91-156).  A layer of the    *)
(* chain whose next is running is marked with the call it waits for: the   *)
(* first call of the branch for a missing file, or a call in return        *)
(* position.                                                               *)
(***************************************************************************)
\* config.HTML5 of the middleware with the id; its index.html exists
StaticHTML5(id) == id = "Static:html5"

\* what config.Filesystem.Open(name) finds: nothing, a file, or a directory
\* with no index.html (Browse is off)
FileKinds == {"missing", "file", "dir"}

\* http.ServeContent(c.ResponseWriter(), c.Request, ...)
ServeContent(ctx) ==
    [ctx EXCEPT !.response.ResponseWriter = ServeFile(ResponseWriter(ctx), TRUE)]

\* the middleware up to its first call of next, or to its return when it
\* serves the file
EnterStatic ==
    /\ At("down", "mw")
    /\ MwKind(chain[idx].id) = "Static"
    /\ \E kind \in FileKinds :
          IF c.Request.Method \notin {MethodGet, MethodHead} \/ kind = "dir"
          THEN /\ chain' = [chain EXCEPT ![idx].k = "mw:tail"]
               /\ log' = Append(log, Event("before", chain[idx].id, Nil))
               /\ idx' = idx + 1
               /\ UNCHANGED <<c, pc, ret>>
          ELSE IF kind = "missing"
          THEN /\ chain' = [chain EXCEPT ![idx].k = "mw:first"]
               /\ log' = Append(log, Event("before", chain[idx].id, Nil))
               /\ idx' = idx + 1
               /\ UNCHANGED <<c, pc, ret>>
          ELSE /\ c' = ServeContent(c)
               /\ log' = Append(log, Event("served", chain[idx].id, Nil))
               /\ idx' = idx - 1
               /\ pc' = "up"
               /\ ret' = Nil
               /\ UNCHANGED chain
    /\ UNCHANGED <<nops, last, pool, matched, errCalls, logged, configVars>>

\* the first next(c) of the missing-file branch returned: nil is returned,
\* a failure is answered with index.html in HTML5 mode and with a further
\* next(c) otherwise
LeaveStaticFirst ==
    /\ At("up", "mw:first")
    /\ IF IsError(ret) /\ ~StaticHTML5(chain[idx].id)
       THEN /\ chain' = [chain EXCEPT ![idx].k = "mw:tail"]
            /\ log' = Append(log, Event("before", chain[idx].id, Nil))
            /\ idx' = idx + 1
            /\ pc' = "down"
            /\ ret' = Nil
            /\ UNCHANGED c
       ELSE /\ chain' = [chain EXCEPT ![idx].k = "mw"]
            /\ idx' = idx - 1
            /\ pc' = pc
            /\ IF IsError(ret)
               THEN /\ c' = ServeContent(c)
                    /\ log' = Append(log, Event("served", chain[idx].id, Nil))
                    /\ ret' = Nil
               ELSE /\ log' = IF IsPanic(ret) THEN log
                              ELSE Append(log, Event("after", chain[idx].id, ret))
                    /\ UNCHANGED <<c, ret>>
    /\ UNCHANGED <<nops, last, pool, matched, errCalls, logged, configVars>>

\* a next(c) in return position returned: the middleware returns its result
LeaveStaticTail ==
    /\ At("up", "mw:tail")
    /\ chain' = [chain EXCEPT ![idx].k = "mw"]
    /\ log' = IF IsPanic(ret) THEN log
              ELSE Append(log, Event("after", chain[idx].id, ret))
    /\ idx' = idx - 1
    /\ UNCHANGED <<c, pc, nops, last, pool, ret, matched, errCalls, logged, configVars>>

(***************************************************************************)
(* SpecStatic: the Static middleware as global middleware and on a route,  *)
(* with and without HTML5 mode.                                            *)
(***************************************************************************)
InitStatic == Fresh /\ limit = MaxStaticCalls

NextStatic ==
    \/ UseOf({"Static"})
    \/ ZestHandleOf(Patterns, NoneOrOne({"Static", "Static:html5"}))
    \/ Run
    \/ ServeHTTPOf({MethodGet, MethodPost}, RequestPaths, {NoRequestHeader}, {<<>>})
    \/ EnterStatic
    \/ LeaveStaticFirst
    \/ LeaveStaticTail
    \/ DispatchRoute
    \/ DispatchNotFound
    \/ HandlerCall
    \/ HandlerReturn
    \/ LeaveRoute
    \/ LeaveMux
    \/ ServeHTTPReturn

SpecStatic == InitStatic /\ [][NextStatic]_vars

(***************************************************************************)
(* SpecPool: requests served concurrently, one per task.  A task takes a   *)
(* Context from Zest.pool (sync.Pool), resets it, runs its handler chain   *)
(* on it, hands a failure to the error handler, and puts the Context back. *)
(* The garbage collector may drop an idle Context from the pool.           *)
(***************************************************************************)
Tasks == 1..MaxTasks

seqVars ==
    <<c, pc, nops, last, heap, middlewares, groups, routes, nconf, serving, crashed,
      pool, chain, idx, ret, log, matched, errCalls, logged, limit, ErrHandler>>

\* the identity of a Context that pool.New makes: one no live object has
NewIdentity == CHOOSE i \in 1..MaxObjects : i \notin DOMAIN objs

\* faulty variant: Get may return a Context that is not idle
PoolGetChoicesAny(idle, alive) ==
    alive \cup (IF Cardinality(alive) < MaxObjects THEN {0} ELSE {})

\* what pool.Get() may return: an idle Context of the pool, or a new one
PoolGetChoices(idle, alive) ==
    idle \cup (IF Cardinality(alive) < MaxObjects THEN {0} ELSE {})

\* the Context a request takes was used by an earlier one, which left keys
\* in its store and a committed response with a body
Used(ctx) ==
    /\ ctx.store # <<>>
    /\ ctx.response.Committed
    /\ ctx.response.Size > 0

\* what the chains of the model end with: nil, a failure, a panic
TaskResults ==
    {Nil, HTTPError(StatusNotFound, <<"not found">>, Nil), Panic(StringValue(<<"oops">>))}

\* the head of Zest.ServeHTTP: c := z.pool.Get(); c.reset(w, r); c.zest = z
PoolGet(t) ==
    /\ tasks[t].pc = "idle"
    /\ \E i \in PoolGetChoices(free, DOMAIN objs), path \in Patterns :
          LET id == IF i = 0 THEN NewIdentity ELSE i
              old == IF i = 0 THEN NewContext ELSE objs[i]
              new == [reset(old, NewWriter(MethodGet), Request(MethodGet, path))
                          EXCEPT !.zest = TRUE]
          IN  /\ objs' = (id :> new) @@ objs
              /\ free' = free \ {id}
              /\ tasks' = [tasks EXCEPT ![t] = [pc |-> "run", ctx |-> id, n |-> 0,
                                                used |-> Used(old)]]
    /\ UNCHANGED seqVars

Running(t) == tasks[t].pc = "run" /\ tasks[t].n < MaxTaskOps

\* a handler or middleware of the chain calls c.Set
TaskSet(t) ==
    /\ Running(t)
    /\ \E k \in Keys, v \in Values :
          objs' = [objs EXCEPT ![tasks[t].ctx] = Set(@, k, v)]
    /\ tasks' = [tasks EXCEPT ![t].n = @ + 1]
    /\ UNCHANGED <<free, seqVars>>

\* a handler writes the response
TaskWrite(t) ==
    /\ Running(t)
    /\ objs' = [objs EXCEPT ![tasks[t].ctx] = String(@, StatusOK, <<"hello">>)]
    /\ tasks' = [tasks EXCEPT ![t].n = @ + 1]
    /\ UNCHANGED <<free, seqVars>>

\* the tail of Zest.ServeHTTP: the chain returns nil or a failure, which
\* goes to the error handler, or it panics; then the deferred
\* z.pool.Put(c) runs
PoolPut(t) ==
    /\ tasks[t].pc = "run"
    /\ \E r \in TaskResults :
          objs' = [objs EXCEPT ![tasks[t].ctx] =
                      IF IsError(r) THEN DefaultErrHandlerFunc(r, @) ELSE @]
    /\ free' = free \cup {tasks[t].ctx}
    /\ tasks' = [tasks EXCEPT ![t] = IdleTask]
    /\ UNCHANGED seqVars

\* the garbage collector frees an idle Context of the pool
PoolDrop ==
    /\ \E id \in free :
          /\ free' = free \ {id}
          /\ objs' = [i \in DOMAIN objs \ {id} |-> objs[i]]
    /\ UNCHANGED <<tasks, seqVars>>

NextPool ==
    \/ \E t \in Tasks : PoolGet(t)
    \/ \E t \in Tasks : TaskSet(t)
    \/ \E t \in Tasks : TaskWrite(t)
    \/ \E t \in Tasks : PoolPut(t)
    \/ PoolDrop

InitPool == Init

SpecPool == InitPool /\ [][NextPool]_vars

(***************************************************************************)
(* Properties of the Response wrapper and of the default error handler,    *)
(* checked under SpecResp.                                                 *)
(***************************************************************************)
Wire == c.response.ResponseWriter

\* a step of the current request: a helper call, not the reset that starts
\* the next request
HelperStep == pc = "handler" /\ pc' = "handler" /\ nops' = nops + 1

\* the errors on err's Unwrap chain, err first
RECURSIVE CauseChain(_)
CauseChain(e) == IF IsNil(e) THEN <<>> ELSE <<e>> \o CauseChain(e.Internal)

IsStructured(e) == e.type = "HTTPError"

HasStructured(es) == \E i \in 1..Len(es) : IsStructured(es[i])

FirstStructured(es) ==
    es[CHOOSE i \in 1..Len(es) :
           /\ IsStructured(es[i])
           /\ \A j \in 1..(i - 1) : ~IsStructured(es[j])]

\* the failure the handler answers with, read off the cause chain: the first
\* StructuredError on err's chain, replaced by the first StructuredError
\* among its own causes when there is one; none for an opaque failure
Answered(err) ==
    LET he == FirstStructured(CauseChain(err))
    IN  IF HasStructured(CauseChain(he.Internal))
        THEN FirstStructured(CauseChain(he.Internal))
        ELSE he

ErrHandlerRanUncommitted == last.op = "ErrHandler" /\ ~last.pre.Committed

\* C3: within one request, whatever helpers are called, Committed never goes
\* back from true to false (so it turns true at most once), and the wrapper
\* forwards WriteHeader to the underlying writer at most once.
C3_CommitOnce ==
    /\ [](Wire.calls <= 1)
    /\ [][HelperStep => (c.response.Committed => c'.response.Committed)]_vars
    /\ [][HelperStep => (Wire'.calls > Wire.calls
                            => ~c.response.Committed /\ c'.response.Committed)]_vars

C3_Witness ==
    /\ nops = MaxOps
    /\ last.pre.Committed
    /\ last.op \in {"Write", "JSON", "SetStatus", "Redirect"}
    /\ c.response.Committed
    /\ Wire.calls = 1

\* C4: the default error handler called on a committed response changes
\* nothing: status, size, headers and body stay as they were.
C4_ErrHandlerCommittedNoop ==
    (last.op = "ErrHandler" /\ last.pre.Committed) => c.response = last.pre

C4_Witness ==
    /\ last.op = "ErrHandler"
    /\ last.pre.Committed
    /\ last.pre.Size > 0
    /\ c.Method = MethodHead

\* C7 as stated: a StructuredError on an uncommitted response of a
\* body-carrying method commits that error's own status and writes
\* {"error": <that error's own message>}, with or without a wrapped cause.
C7_OwnStatusAndMessage ==
    (ErrHandlerRanUncommitted /\ IsStructured(last.err) /\ c.Method # MethodHead)
        => /\ c.response.Committed
           /\ c.response.Status = last.err.StatusCode
           /\ Wire.status = last.err.StatusCode
           /\ Wire.body = <<JSONErrorChunk(last.err.Msg)>>

\* C7 amended: the status and message are the error's own unless its cause
\* chain holds another StructuredError; then they are those of the first
\* StructuredError on the cause chain.
C7_StructuredErrorResponse ==
    (ErrHandlerRanUncommitted /\ IsStructured(last.err) /\ c.Method # MethodHead)
        => LET he == Answered(last.err)
           IN  /\ c.response.Committed
               /\ c.response.Status = he.StatusCode
               /\ Wire.status = he.StatusCode
               /\ Wire.calls = 1
               /\ Wire.body = <<JSONErrorChunk(he.Msg)>>
               /\ c.response.Size = ByteLen(JSONErrorChunk(he.Msg))

C7_Witness ==
    /\ ErrHandlerRanUncommitted
    /\ c.Method = MethodPost
    /\ last.err = HTTPError(StatusUnprocessableEntity, <<"invalid">>,
                            OpaqueError(<<"ctx: ">>,
                                HTTPError(StatusNotFound, <<"not found">>, Nil)))
    /\ Wire.status = StatusNotFound
    /\ Wire.body = <<JSONErrorChunk(<<"not found">>)>>

C9_HeadNoBody ==
    (ErrHandlerRanUncommitted /\ c.Method = MethodHead)
        => /\ c.response.Committed
           /\ Wire.calls = 1
           /\ Wire.status = c.response.Status
           /\ c.response.Status =
                  (IF HasStructured(CauseChain(last.err))
                   THEN Answered(last.err).StatusCode
                   ELSE StatusInternalServerError)
           /\ c.response.Size = 0
           /\ Wire.body = <<>>

C9_Witness ==
    /\ ErrHandlerRanUncommitted
    /\ c.Method = MethodHead
    /\ last.err = HTTPError(StatusNotFound, <<"not found">>, Nil)
    /\ Wire.status = StatusNotFound
    /\ c.response.Size = 0

\* C10: SetStatus on a committed response changes nothing and forwards
\* nothing; so of two SetStatus calls with different codes made before any
\* body write, the client sees the first code.
C10_SetStatusFirstWins ==
    /\ (last.op = "SetStatus" /\ last.pre.Committed) => c.response = last.pre
    /\ (/\ nops = 2
        /\ last.op = "SetStatus"
        /\ last.prevOp = "SetStatus"
        /\ last.code # last.prevCode)
           => /\ Wire.status = last.prevCode
              /\ c.response.Status = last.prevCode
              /\ Wire.calls = 1

C10_Witness ==
    /\ nops = 2
    /\ last.op = "SetStatus"
    /\ last.prevOp = "SetStatus"
    /\ last.prevCode = 201
    /\ last.code = StatusNotFound
    /\ Wire.status = 201

BodyWrite == last.op \in {"Write", "WriteString"}

\* C11: a body write (Write or WriteString) to an uncommitted response
\* commits it, with status 200 when no status was set before; a body write
\* to a committed response leaves the status as it was.
C11_BodyWriteCommits ==
    /\ (BodyWrite /\ ~last.pre.Committed)
           => /\ c.response.Committed
              /\ c.response.Status = StatusOK
              /\ Wire.status = StatusOK
              /\ Wire.calls = 1
    /\ (BodyWrite /\ last.pre.Committed)
           => /\ c.response.Committed
              /\ c.response.Status = last.pre.Status
              /\ Wire.status = last.pre.ResponseWriter.status
              /\ Wire.calls = last.pre.ResponseWriter.calls

\* C11 witness: WriteString as the first call of a request committed 200,
\* and the Write after it left the status alone
C11_Witness ==
    /\ nops = 2
    /\ last.op = "Write" /\ last.prevOp = "WriteString"
    /\ last.pre.Committed /\ last.pre.Status = StatusOK
    /\ Wire.status = StatusOK /\ Wire.calls = 1
    /\ Len(Wire.body) = 2

(***************************************************************************)
(* Properties of the Context pool, checked under SpecPool.                 *)
(***************************************************************************)
\* the tasks whose request has just been bound to its Context by reset
JustReset == { t \in Tasks : tasks[t].pc = "run" /\ tasks[t].n = 0 }

CtxOf(t) == objs[tasks[t].ctx]

\* C12: after reset, at the start of every request, the store holds no key
\* and Get returns nil for every key, whatever earlier requests Set on the
\* same Context.
C12_ResetClearsStore ==
    \A t \in JustReset :
        /\ CtxOf(t).store = <<>>
        /\ \A k \in Keys : Get(CtxOf(t), k) = NilValue

\* C12 witness: a request starts on a Context an earlier request left with
\* a key in its store
C12_Witness ==
    \E t \in JustReset :
        /\ tasks[t].used
        /\ tasks[t].ctx \in DOMAIN objs
        /\ DOMAIN CtxOf(t).store = {}

\* C13 as stated: right after reset the response has committed = false,
\* bytesWritten = 0 and status = 0.
C13_ResetStatusUnset ==
    \A t \in JustReset :
        /\ ~CtxOf(t).response.Committed
        /\ CtxOf(t).response.Size = 0
        /\ CtxOf(t).response.Status = 0

\* C13: right after reset the response has committed = false,
\* bytesWritten = 0 and status = 200, and a writer nothing was sent on,
\* whatever the previous request left.
C13_ResetResponse ==
    \A t \in JustReset :
        /\ ~CtxOf(t).response.Committed
        /\ CtxOf(t).response.Size = 0
        /\ CtxOf(t).response.Status = StatusOK
        /\ CtxOf(t).response.ResponseWriter = NewWriter(CtxOf(t).Method)

\* C13 witness: a request starts on a Context an earlier request left
\* committed with a body
C13_Witness ==
    \E t \in JustReset :
        /\ tasks[t].used
        /\ CtxOf(t).response.Status = StatusOK
        /\ ~CtxOf(t).response.Committed

Holders(id) == { t \in Tasks : tasks[t].ctx = id }

\* C14: under every interleaving no Context is held by two requests at once,
\* a Context a request holds is not in the pool, and between Get and Put
\* only the request holding a Context changes it.
C14_ExclusiveContext ==
    /\ [](\A id \in DOMAIN objs :
             /\ Cardinality(Holders(id)) <= 1
             /\ Holders(id) # {} => id \notin free)
    /\ [](\A t \in Tasks : tasks[t].pc # "idle" => tasks[t].ctx \in DOMAIN objs)
    /\ [][\A id \in DOMAIN objs \cap DOMAIN objs' :
              objs'[id] # objs[id] =>
                  \E t \in Tasks :
                      /\ tasks[t].ctx = id \/ tasks'[t].ctx = id
                      /\ \A u \in Tasks \ {t} :
                             tasks[u].ctx # id /\ tasks'[u].ctx # id]_vars

\* C14 witness: two requests in flight at once, one on a Context taken from
\* the pool after an earlier request used it
C14_Witness ==
    /\ \A t \in Tasks : tasks[t].pc = "run"
    /\ Cardinality({ tasks[t].ctx : t \in Tasks }) = MaxTasks
    /\ \E t \in Tasks : tasks[t].used

(***************************************************************************)
(* Properties of the engine, checked under Spec.  They read the log of the *)
(* request last served: the before and after phases of the middleware and  *)
(* the terminal handler, and the calls of the error handler.               *)
(***************************************************************************)
Finished == pc = "idle" /\ log # <<>>

Panicked == \E i \in 1..Len(log) : IsPanic(log[i].got)

\* the phases logged, in order: before and after of a middleware, H
Phases ==
    LET p == SelectSeq(log, LAMBDA e : e.ev \in {"before", "after", "H"})
    IN  [i \in 1..Len(p) |-> <<p[i].ev, p[i].id>>]

Before(mws) == [i \in 1..Len(mws) |-> <<"before", mws[i]>>]
After(mws) == [i \in 1..Len(mws) |-> <<"after", mws[Len(mws) + 1 - i]>>]
Terminal(rt) == <<"H", rt.final[Len(rt.final)].id>>

Served == routes[matched]
GlobalNow == Elems(heap, middlewares)

\* C1: use(H, M1..Mn) runs M1-before, ..., Mn-before, H, Mn-after, ...,
\* M1-after, and use(H) is H itself.  Checked on the two calls of use a
\* request to a route of the engine passes through: the global middleware
\* around the mux, and the route's middleware around its terminal handler.
C1_UseOrder ==
    Finished /\ ~Panicked /\ Served.group = 0 =>
        LET inner == IF Served.method = "" THEN <<>>
                     ELSE Before(Served.rmws) \o <<Terminal(Served)>>
                          \o After(Served.rmws)
        IN  /\ Phases = Before(GlobalNow) \o inner \o After(GlobalNow)
            /\ Served.method # "" /\ Served.rmws = <<>> =>
                   Len(Served.final) = 2 /\ Served.final[2].k = "H"

\* C1 witness: a request served through two distinct global middleware
\* and one route middleware
C1_Witness ==
    /\ Finished /\ ~Panicked
    /\ Served.group = 0 /\ Served.method # ""
    /\ Len(GlobalNow) = 2 /\ GlobalNow[1] # GlobalNow[2]
    /\ Len(Served.rmws) = 1
    /\ Len(Phases) = 7

Failed ==
    \/ Served.method = ""
    \/ \E i \in 1..Len(log) : log[i].ev \in {"route", "engine"} /\ IsError(log[i].got)

CallsBy(S) == { i \in 1..Len(errCalls) : errCalls[i].by \in S }
LoggerFailures ==
    { i \in 1..Len(log) : /\ log[i].ev = "after"
                          /\ MwKind(log[i].id) = "Logger"
                          /\ IsError(log[i].got) }

C6_FailureReachesEveryMiddleware ==
    Finished /\ Served.method # "" =>
        \A i \in 1..Len(log) :
            log[i].ev = "H" /\ IsError(log[i].got) =>
                /\ \A j \in 1..Len(log) :
                       log[j].ev \in {"after", "route"} => log[j].got = log[i].got
                /\ Cardinality({ j \in 1..Len(log) : log[j].ev = "after" })
                       = Len(GlobalNow) + Len(Served.gmws) + Len(Served.rmws)

\* C15: a request's Context is out of the pool while the handler chain and
\* the error handler run, and is put back exactly once when the request
\* ends, after them, on every path: success, failure, no matching route,
\* panic.
C15_ReleasedOnceAtEnd ==
    /\ (serving /\ pc # "idle") => pool = <<>>
    /\ Finished => /\ pool = <<c>>
                   /\ log[Len(log)].ev = "engine"
                   /\ \A i \in 1..(Len(log) - 1) : log[i].ev # "engine"

\* C15 witness: a request whose handler panicked, with no Recovery, has
\* ended and its Context is back in the pool
C15_Witness ==
    /\ Finished
    /\ IsPanic(ret)
    /\ Served.method # ""
    /\ Len(pool) = 1

\* the elements group g holds now
Held(g) == Elems(heap, groups[g].middlewares)

\* C16 as stated: whatever Use and Group calls were made on a parent group
\* and on its subgroups, each subgroup's middleware are the parent's at the
\* moment the subgroup was created followed by the subgroup's own additions.
C16_SubgroupKeepsSequence ==
    \A g \in 1..Len(groups) : groups[g].parent # 0 => Held(g) = groups[g].want

\* the group a step created a subgroup of or registered a route on, 0 when
\* the step did neither
Touched ==
    IF Len(groups') > Len(groups) THEN groups'[Len(groups')].parent
    ELSE IF Len(routes') > Len(routes) THEN routes'[Len(routes')].group
    ELSE 0

\* C17 as stated: a route registered through nested groups runs the
\* middleware of every ancestor group, root to leaf, then the call-site
\* middleware, and neither creating a subgroup nor registering a route
\* changes the middleware sequence of the group it is done on.
C17_NestedRouteChain ==
    /\ [](\A i \in 2..Len(routes) :
             routes[i].group # 0 =>
                 routes[i].final
                     = <<Layer("route", "")>>
                       \o use(<<HandlerLayer(i - 1)>>,
                              routes[i].gwant \o routes[i].rmws))
    /\ [][Touched # 0 =>
             Elems(heap', groups'[Touched].middlewares) = Held(Touched)]_vars

\* a pattern with one separator before each of its segments
RECURSIVE SingleSeparators(_)
SingleSeparators(p) ==
    IF p = <<>> THEN <<>>
    ELSE IF Head(p) = Slash THEN SingleSeparators(Tail(p))
    ELSE <<Slash, Head(p)>> \o SingleSeparators(Tail(p))

\* C18 as stated: the pattern a group registers is the ancestor prefixes and
\* the sub-pattern joined with exactly one separator at each joint, whatever
\* slashes the caller supplied: "/api/" with "/hello" and "/api" with "hello"
\* both register "/api/hello".
C18_SingleSeparatorJoin ==
    \A i \in 2..Len(routes) :
        routes[i].group # 0 => routes[i].pattern = SingleSeparators(routes[i].pattern)

\* the mux has resolved a request
Resolved == serving /\ matched # 0

\* r1 and r2 serve the same method and differ only at one position, where
\* r1 has a literal segment and r2 a parameter capture
LiteralVsParam(r1, r2) ==
    LET ps == Segments(r1.pattern)
        qs == Segments(r2.pattern)
    IN  /\ r1.method = r2.method
        /\ Len(ps) = Len(qs)
        /\ \E k \in 1..Len(ps) :
              /\ SegRank(ps[k]) = 0 /\ IsParam(qs[k])
              /\ \A n \in 1..Len(ps) : n # k => ps[n] = qs[n]

\* C19: for two routes of the same method registered in either order, R1
\* with a literal segment where R2 has a parameter capture and the same
\* prefix, a request that R1 matches resolves to R1 and never to R2.
C19_LiteralBeatsParam ==
    Resolved =>
        \A i, j \in 2..Len(routes) :
            /\ LiteralVsParam(routes[i], routes[j])
            /\ RouteMatches(routes[i], c.Request.Method, c.Request.Path)
            => matched = i

\* C19 witness: /users/{name} was registered before /users/me, and the
\* handler of /users/me is running for a request for /users/me
C19_Witness ==
    /\ At("down", "H")
    /\ Len(routes) = 3
    /\ routes[2].pattern = <<Slash, "users", Slash, "{name}">>
    /\ routes[3].pattern = <<Slash, "users", Slash, "me">>
    /\ c.Request.Path = <<Slash, "users", Slash, "me">>
    /\ matched = 3

\* the registered route of the pattern, 0 when there is none
RouteOf(pattern) ==
    IF \E i \in 2..Len(routes) : routes[i].pattern = pattern
    THEN CHOOSE i \in 2..Len(routes) : routes[i].pattern = pattern
    ELSE 0

\* C20: with /assets/{path...} and /assets/logo.png registered for the same
\* method, a request for /assets/logo.png runs the literal route's handler
\* and a request for /assets/css/a.css runs the wildcard route's handler
\* with Param("path") = "css/a.css".
C20_WildcardAndLiteral ==
    LET wild == RouteOf(<<Slash, "assets", Slash, "{path...}">>)
        lit == RouteOf(<<Slash, "assets", Slash, "logo.png">>)
    IN  Resolved /\ wild # 0 /\ lit # 0 =>
            /\ c.Request.Path = <<Slash, "assets", Slash, "logo.png">>
                   => matched = lit
            /\ c.Request.Path = <<Slash, "assets", Slash, "css", Slash, "a.css">>
                   => matched = wild /\ Param(c, "path") = "css/a.css"

\* C20 witness: both routes are registered, the wildcard one first, and its
\* handler is running for /assets/css/a.css with the two segments captured
C20_Witness ==
    /\ At("down", "H")
    /\ RouteOf(<<Slash, "assets", Slash, "{path...}">>) = 2
    /\ RouteOf(<<Slash, "assets", Slash, "logo.png">>) = 3
    /\ c.Request.Path = <<Slash, "assets", Slash, "css", Slash, "a.css">>
    /\ matched = 2
    /\ Param(c, "path") = "css/a.css"

\* C25 as stated: the default Error Handler's JSON error response carries
\* the header Content-Type: application/json; charset=UTF-8.
C25_ErrorJSONCharset ==
    (ErrHandlerRanUncommitted /\ c.Method # MethodHead)
        => Wire.sent[HeaderContentType] = <<MIMEApplicationJSONCharsetUTF8>>

\* C22: a request that matches no registered route is answered by invoking
\* the Error Handler installed at that time, once, with a StructuredError of
\* status 404: with the default handler the client gets status 404 and the
\* JSON error body of a handler failure, and a caller-replaced handler is the
\* one that answers.
C22_NotFoundThroughErrHandler ==
    Finished /\ Served.method = "" =>
        LET err == HTTPError(StatusNotFound, <<"not found">>, Nil)
        IN  /\ errCalls = <<[by |-> "notfound", err |-> err, committed |-> FALSE,
                             handler |-> ErrHandler]>>
            /\ ErrHandler = "DefaultErrHandlerFunc" =>
                   /\ Wire.status = StatusNotFound
                   /\ Wire.body = <<JSONErrorChunk(<<"not found">>)>>
                   /\ Wire.sent[HeaderContentType] = <<MIMEApplicationJSON>>
            /\ ErrHandler = "CustomErrHandler" =>
                   /\ Wire.status = StatusInternalServerError
                   /\ Wire.body = <<TextChunk(<<"custom">>)>>

\* C22 witness: with a route registered and the error handler replaced, a
\* request for another path was answered by the replacement
C22_Witness ==
    /\ Finished
    /\ Served.method = ""
    /\ Len(routes) = 2
    /\ ErrHandler = "CustomErrHandler"
    /\ Wire.body = <<TextChunk(<<"custom">>)>>

\* C23: registering a (verb, pattern) pair that is already registered is
\* rejected when it is registered: the call panics and adds nothing, every
\* other registration adds one route, no registration touches the routes
\* already there, and so no two routes ever hold the same pair and the first
\* route's handler is the one that serves.
C23_DuplicateRejected ==
    /\ [](\A i, j \in 1..Len(routes) : i # j => ~Conflicts(routes[i], routes[j]))
    /\ [][nconf' = nconf + 1 =>
             /\ Len(routes') >= Len(routes)
             /\ \A i \in 1..Len(routes) : routes'[i] = routes[i]
             /\ crashed' <=> Len(routes') = Len(routes)]_vars
    /\ [](Resolved /\ pc = "down" /\ Served.method # "" =>
             chain[Len(chain)] = HandlerLayer(matched - 1))

\* C23 witness: the second registration repeated the first and was
\* rejected, and the handler registered first is serving a request
C23_Witness ==
    /\ At("down", "H")
    /\ nconf = 2
    /\ Len(routes) = 2
    /\ matched = 2
    /\ chain[idx] = HandlerLayer(1)

\* C21: for a route registered as GET /api/users/{name}, directly or as
\* group "/api" plus "/users/{name}", a request GET /api/users/alice runs
\* that route's handler and Param("name") is "alice" in it, also when
\* RequestID replaced the Context's request before calling next.
C21_UsersNameParam ==
    LET users == RouteOf(<<Slash, "api">> \o UsersName)
    IN  Resolved /\ users # 0 /\ c.Request.Path = UsersAlice =>
            /\ matched = users
            /\ pc = "down" => chain[Len(chain)] = HandlerLayer(users - 1)
            /\ Param(c, "name") = "alice"

\* C21 witness: the handler of the route registered through the group is
\* running on the request RequestID put in place of the original
C21_Witness ==
    /\ At("down", "H")
    /\ Served.group # 0
    /\ "requestID" \in c.Request.values
    /\ Param(c, "name") = "alice"

\* the value of the most recent Set(k, v) of the current request
LastSet(k) ==
    LET sets == { i \in 1..Len(log) : log[i].ev = "Set" /\ log[i].id = k }
    IN  IF sets = {} THEN NilValue
        ELSE log[CHOOSE i \in sets : \A j \in sets : j <= i].got.Msg

\* C27: within one request Get(k) returns the value of the most recent
\* Set(k, v) made earlier in it by any middleware or handler, nil if none
\* was made; what a global middleware Set is seen by the route's middleware
\* and by the terminal handler.
C27_GetSeesLastSet ==
    serving => \A k \in Keys \cup {"requestID"} : Get(c, k) = LastSet(k)

\* C27 witness: a route middleware is about to run and reads the id that
\* the global RequestID stored
C27_Witness ==
    /\ At("down", "mw")
    /\ chain[idx].id = "R"
    /\ Get(c, "requestID") = "client"

\* the headers the client receives: those frozen when the response was
\* committed or, for a handler that wrote nothing, those set when the
\* server finishes the response
Carried == IF Wire.status # 0 THEN Wire.sent ELSE Wire.hdr

\* a request for a registered route was served with RequestID among the
\* global middleware, and no panic took the response away
ServedWithRequestID ==
    /\ Finished /\ Served.method # "" /\ ~IsPanic(ret)
    /\ \E i \in 1..Len(GlobalNow) : GlobalNow[i] = "RequestID"

\* C24 as stated: with RequestID registered globally the response carries
\* X-Request-ID with exactly one, non-empty value, whatever the terminal
\* handler does with Set or SetHeader.
C24_RequestIDNonEmptyOnce ==
    ServedWithRequestID =>
        /\ Len(Carried["X-Request-ID"]) = 1
        /\ Carried["X-Request-ID"][1] # ""

\* the id RequestID gives the current request
RidOf ==
    IF c.Request.Header["X-Request-ID"] = <<>> THEN "generated"
    ELSE c.Request.Header["X-Request-ID"][1]

HandlerHeaders ==
    { log[i].got.Msg : i \in { j \in 1..Len(log) : log[j].ev = "SetHeader" } }

\* C24: with RequestID registered globally the response carries
\* X-Request-ID with exactly one value: the request's id, unless the
\* terminal handler called SetHeader for X-Request-ID, and then possibly the
\* value the handler passed, which is empty if the handler passed "".
C24_RequestIDOnce ==
    ServedWithRequestID =>
        /\ Len(Carried["X-Request-ID"]) = 1
        /\ Carried["X-Request-ID"][1] \in {RidOf} \cup HandlerHeaders
        /\ "" \notin HandlerHeaders => Carried["X-Request-ID"][1] # ""

\* C24 witness: the handler called SetHeader for X-Request-ID and Set, and
\* the response carries the handler's value alone
C24_Witness ==
    /\ ServedWithRequestID
    /\ HandlerHeaders = {"mine"}
    /\ Carried["X-Request-ID"] = <<"mine">>

\* the Authorization headers of the form "Bearer <token>" whose token parses
GoodAuthorizations == {<<"Bearer", " ", "good">>}

\* C30: JWT invokes next only when the skipper returned true or the
\* Authorization header is "Bearer <token>" with a token that parses; in
\* every other case it returns a StructuredError with status 401, nothing
\* below it runs and no claim is stored.
C30_JWTGuardsNext ==
    serving =>
        \A i \in 1..Len(log) :
            /\ log[i].ev = "before" /\ log[i].id = "JWT" =>
                   \/ log[i - 1].ev = "skip"
                   \/ c.Request.Header["Authorization"] \in GoodAuthorizations
            /\ log[i].ev = "deny" =>
                   /\ c.Request.Header["Authorization"] \notin GoodAuthorizations
                   /\ IsStructured(log[i].got)
                   /\ log[i].got.StatusCode = StatusUnauthorized
                   /\ "sub" \notin DOMAIN c.store
                   /\ matched = 0
                   /\ \A j \in (i + 1)..Len(log) : log[j].ev \in {"after", "engine"}

\* C30 witness: a request with a token that does not parse was denied and
\* answered with 401
C30_Witness ==
    /\ Finished
    /\ c.Request.Header["Authorization"] = <<"Bearer", " ", "bad">>
    /\ \E i \in 1..Len(log) : log[i].ev = "deny"
    /\ Wire.status = StatusUnauthorized

\* what the claim expects of each X-Forwarded-For header: its first
\* comma-separated value, trimmed
FirstForwarded ==
    { [header |-> <<>>, first |-> <<>>],
      [header |-> << <<"1.1.1.1">> >>, first |-> <<"1.1.1.1">>],
      [header |-> << <<" ", "1.1.1.1", " ", ",", " ", "2.2.2.2">> >>, first |-> <<"1.1.1.1">>],
      [header |-> << <<" ", ",", "2.2.2.2">> >>, first |-> <<>>],
      [header |-> << <<" ">> >>, first |-> <<>>] }

\* what the claim expects of each X-Real-IP header: its value, trimmed
TrimmedReal ==
    { [header |-> <<>>, trimmed |-> <<>>],
      [header |-> << <<" ", "3.3.3.3", " ">> >>, trimmed |-> <<"3.3.3.3">>],
      [header |-> << <<" ">> >>, trimmed |-> <<>>] }

\* the peer address without its port
PeerHosts ==
    { [addr |-> <<"4.4.4.4", ":", "80">>, host |-> <<"4.4.4.4">>],
      [addr |-> <<"[", "::1", "]", ":", "80">>, host |-> <<"::1">>] }

\* C26: ClientIP returns the first comma-separated value of X-Forwarded-For,
\* trimmed, when that is non-empty; otherwise the trimmed X-Real-IP value
\* when that is non-empty; otherwise the peer address without its port.
C26_ClientIPPrecedence ==
    \A i \in 1..Len(log) :
        log[i].ev = "ClientIP" =>
            LET f == (CHOOSE e \in FirstForwarded :
                          e.header = c.Request.Header["X-Forwarded-For"]).first
                x == (CHOOSE e \in TrimmedReal :
                          e.header = c.Request.Header["X-Real-Ip"]).trimmed
                p == (CHOOSE e \in PeerHosts : e.addr = c.Request.RemoteAddr).host
            IN  log[i].got.Msg = IF f # <<>> THEN f ELSE IF x # <<>> THEN x ELSE p

\* C26 witness: both headers carry an address and the first value of
\* X-Forwarded-For was returned
C26_Witness ==
    /\ c.Request.Header["X-Forwarded-For"] = << <<" ", "1.1.1.1", " ", ",", " ", "2.2.2.2">> >>
    /\ c.Request.Header["X-Real-Ip"] = << <<" ", "3.3.3.3", " ">> >>
    /\ \E i \in 1..Len(log) :
           log[i].ev = "ClientIP" /\ log[i].got.Msg = <<"1.1.1.1">>

\* Logger is the first global middleware and Recovery is one of the others
LoggerAroundRecovery ==
    /\ Len(GlobalNow) >= 2
    /\ GlobalNow[1] = "Logger"
    /\ \E i \in 2..Len(GlobalNow) : GlobalNow[i] = "Recovery"

\* the status the client is sent: the one committed or, when the handlers
\* committed none, the 200 net/http sends when ServeHTTP returns
ClientStatus == IF Wire.status = 0 THEN StatusOK ELSE Wire.status

RECURSIVE BodyBytes(_)
BodyBytes(chunks) ==
    IF chunks = <<>> THEN 0 ELSE ByteLen(Head(chunks)) + BodyBytes(Tail(chunks))

\* C28: with Logger registered first and Recovery inside it, Logger's
\* record is made after every inner middleware and the terminal handler
\* returned, and its status and size are the status sent to the client and
\* the number of body bytes written, also when the handler fails or panics.
C28_LoggerSeesFinal ==
    Finished /\ LoggerAroundRecovery =>
        /\ logged # <<>>
        /\ logged[Len(logged)].Status = ClientStatus
        /\ logged[Len(logged)].Size = BodyBytes(Wire.body)
        /\ \E k \in 1..Len(log) :
              /\ log[k].ev = "after" /\ log[k].id = "Logger"
              /\ \A j \in (k + 1)..Len(log) : log[j].ev = "engine"
              /\ \A j \in 1..(k - 1) : log[j].ev # "engine"

\* C28 witness: the handler panicked below Recovery, and Logger recorded the
\* 500 the error handler answered with
C28_Witness ==
    /\ Finished /\ LoggerAroundRecovery
    /\ \E i \in 1..Len(log) : log[i].ev = "H" /\ IsPanic(log[i].got)
    /\ logged[Len(logged)].Status = StatusInternalServerError
    /\ Wire.status = StatusInternalServerError

\* next has returned to Recovery, or panicked below it, and Recovery returns
RecoveryReturns ==
    /\ At("up", "mw")
    /\ MwKind(chain[idx].id) = "Recovery"
    /\ idx' = idx - 1

\* the panic value is an error whose text contains one of the two phrases,
\* letter for letter
NamesBrokenPipe(v) ==
    /\ v.type # "string"
    /\ \E i \in 1..Len(ErrorText(v)) :
          ErrorText(v)[i] \in {"broken pipe", "connection reset by peer"}

\* the panic value is an error whose text contains one of the two phrases
\* in any letter case
NamesBrokenPipeAnyCase(v) ==
    /\ v.type # "string"
    /\ \E i \in 1..Len(ErrorText(v)) :
          ErrorText(v)[i] \in {"broken pipe", "connection reset by peer",
                               "Broken Pipe", "Connection Reset By Peer"}

\* what Recovery is to return for what reached it, given which panic values
\* count as a broken connection
RecoveryContract(broken) ==
    /\ ~IsPanic(ret')
    /\ ~IsPanic(ret) => ret' = ret
    /\ IsPanic(ret) /\ broken =>
           ret' = Nil /\ c' = c
    /\ IsPanic(ret) /\ ~broken =>
           /\ IsStructured(ret')
           /\ ret'.StatusCode = StatusInternalServerError
           /\ ret'.Msg = (IF ret.Internal.type = "string" THEN ret.Internal.Msg
                          ELSE ErrorText(ret.Internal))

\* C29 as stated: a panic below Recovery never leaves Recovery; Recovery
\* returns a StructuredError with status 500 and the panic value's text,
\* except for an error whose text contains "broken pipe" or "connection
\* reset by peer", for which it returns no failure and writes nothing; with
\* no panic it returns next's result unchanged.
C29_RecoveryContainsPanicExact ==
    [][RecoveryReturns =>
           RecoveryContract(IsPanic(ret) /\ NamesBrokenPipe(ret.Internal))]_vars

\* C29: as above, where the two phrases are looked for in the text of the
\* error without regard to letter case.
C29_RecoveryContainsPanic ==
    [][RecoveryReturns =>
           RecoveryContract(IsPanic(ret) /\ NamesBrokenPipeAnyCase(ret.Internal))]_vars

\* C29 witness: a handler panicked with an error that spells the phrase with
\* capitals, Recovery returned no failure and nothing was written
C29_Witness ==
    /\ Finished
    /\ \E i \in 1..Len(log) :
           /\ log[i] = Event("after", "Recovery", Panic(OpaqueError(<<"Broken Pipe">>, Nil)))
           /\ \A j \in (i + 1)..Len(log) : IsNil(log[j].got)
    /\ Wire.status = 0

\* C33: Redirect(status, url) with status outside 300..399 returns a
\* failure and leaves the response as it was: no Location header set, not
\* committed by the call, status unchanged.  With status inside 300..399 on
\* an uncommitted response it sets Location to url and commits that status.
C33_RedirectStatusRange ==
    (pc = "handler" /\ last.op = "Redirect") =>
        IF last.code < 300 \/ last.code > 399
        THEN /\ ~IsNil(last.err)
             /\ c.response = last.pre
        ELSE ~last.pre.Committed =>
                 /\ IsNil(last.err)
                 /\ Wire.hdr[HeaderLocation] = <<"/login">>
                 /\ Wire.sent[HeaderLocation] = <<"/login">>
                 /\ c.response.Committed
                 /\ c.response.Status = last.code
                 /\ Wire.status = last.code

\* C33 witness: Redirect(400, url) was refused on a response nothing had
\* been written to
C33_Witness ==
    /\ pc = "handler" /\ last.op = "Redirect" /\ last.code = 400
    /\ ~c.response.Committed
    /\ Wire.hdr[HeaderLocation] = <<>>

\* the middleware whose before-phase the current request has run
RanBefore == { log[i].id : i \in { j \in 1..Len(log) : log[j].ev = "before" } }

\* the middleware whose after-phase the current request has run
RanAfter == { log[i].id : i \in { j \in 1..Len(log) : log[j].ev = "after" } }

GlobalSet == { GlobalNow[i] : i \in 1..Len(GlobalNow) }

\* C36: every global middleware added with Use before serving begins wraps
\* every route's handler, whether Use was called before or after the route
\* was registered.
C36_GlobalWrapsEveryRoute ==
    Finished /\ Served.method # "" /\ ~Panicked => GlobalSet \subseteq RanBefore

\* C37: global middleware also runs for a request that matches no
\* registered route, before and after the catch-all produces the 404, so a
\* global RequestID puts its header on the 404 response.
C37_GlobalRunsOnNotFound ==
    Finished /\ Served.method = "" =>
        /\ GlobalSet \subseteq RanBefore
        /\ GlobalSet \subseteq RanAfter
        /\ "RequestID" \in GlobalSet => Len(Carried["X-Request-ID"]) = 1

\* a step is a Use call on a group: that group's middleware grow, and no
\* group is created
UseOnGroup(g) ==
    /\ Len(groups') = Len(groups)
    /\ g \in 1..Len(groups)
    /\ groups'[g].middlewares.len > groups[g].middlewares.len

\* C38: the chain of a route is fixed when the route is registered: a Use
\* call on a group leaves every registered route as it was and changes the
\* middleware of no group that exists already, other than the one it is
\* called on; it shows only in routes and subgroups created afterwards.
C38_UseLeavesRegistered ==
    [][\A g \in 1..Len(groups) :
           UseOnGroup(g) =>
               /\ routes' = routes
               /\ \A h \in 1..Len(groups) :
                      h # g => Elems(heap', groups'[h].middlewares) = Held(h)]_vars

\* the first half of C38 alone: no route changes in a Use call on a group
C38_RoutesFixed ==
    [][\A g \in 1..Len(groups) : UseOnGroup(g) => routes' = routes]_vars

\* the origins each configuration of the model allows
AllowedOrigins(id) ==
    IF id = "CORS:list" THEN {"https://a", "https://b"}
    ELSE IF id = "CORS:func" THEN {"https://a"}
    ELSE {"https://a", "https://evil"}

\* the request's Origin is one the CORS middleware about to run allows
OriginAllowed ==
    /\ c.Request.Header["Origin"] # <<>>
    /\ c.Request.Header["Origin"][1] \in AllowedOrigins(chain[idx].id)

AccessControlHeaders(h) ==
    { k \in DOMAIN h :
          k \in {"Access-Control-Allow-Origin", "Access-Control-Allow-Credentials",
                 "Access-Control-Expose-Headers", "Access-Control-Allow-Methods",
                 "Access-Control-Allow-Headers", "Access-Control-Max-Age"} }

CORSRuns == At("down", "mw") /\ MwKind(chain[idx].id) = "CORS" /\ idx' # idx

\* C31: for an OPTIONS request with an allowed Origin, CORS commits 204
\* with the Allow-Methods and Allow-Headers headers and does not invoke
\* next; for a request with no Origin or a disallowed one it sets no
\* Access-Control-* header and invokes next, once: when next returns, CORS
\* returns.
C31_CORSPreflight ==
    /\ [][CORSRuns /\ OriginAllowed /\ c.Request.Method = MethodOptions =>
              /\ idx' = idx - 1 /\ pc' = "up"
              /\ c'.response.Committed
              /\ c'.response.Status = StatusNoContent
              /\ c'.response.ResponseWriter.status = StatusNoContent
              /\ HeaderValues(c'.response.ResponseWriter.sent, "Access-Control-Allow-Methods")
                     = <<"GET, POST, PUT, PATCH, DELETE, OPTIONS">>
              /\ HeaderValues(c'.response.ResponseWriter.sent, "Access-Control-Allow-Headers")
                     = <<"Origin, Content-Type, Authorization">>]_vars
    /\ [][CORSRuns /\ ~OriginAllowed =>
              /\ idx' = idx + 1 /\ pc' = "down"
              /\ c' = c]_vars
    /\ [][At("up", "mw") /\ MwKind(chain[idx].id) = "CORS" /\ idx' # idx =>
              idx' = idx - 1 /\ pc' = "up"]_vars
    /\ [](serving /\ c.Request.Header["Origin"] = <<>>
              => AccessControlHeaders(Wire.hdr) = {})

\* C31 witness: a preflight request of an allowed origin was answered by
\* CORS with 204 and no route was dispatched
C31_Witness ==
    /\ Finished
    /\ c.Request.Method = MethodOptions
    /\ \E i \in 1..Len(log) : log[i].ev = "preflight"
    /\ matched = 0
    /\ Wire.status = StatusNoContent
    /\ AccessControlHeaders(Wire.sent) # {}

\* the Content-Type headers of the model that name a media type Bind
\* decodes
SupportedContentTypes ==
    { << <<"application/json", ";", " ", "charset=utf-8">> >>,
      << <<"text/xml">> >>,
      << <<"multipart/form-data", ";", " ", "boundary=x">> >> }

\* what the claim expects of one Bind call: the steps run, in order, and
\* the failure returned.  The request has a body when its Content-Length
\* is not 0.
BindExpected(req, dst) ==
    LET queried == req.Method \in {"GET", "DELETE", "HEAD"}
        hasBody == req.ContentLength # 0
        supported == req.Header["Content-Type"] \in SupportedContentTypes
        upToQuery == IF queried THEN "path, query" ELSE "path"
    IN  IF ~dst.param THEN [steps |-> "path", status |-> 400]
        ELSE IF queried /\ ~dst.query THEN [steps |-> "path, query", status |-> 400]
        ELSE IF hasBody /\ ~supported
        THEN [steps |-> upToQuery \o ", body", status |-> 415]
        ELSE IF hasBody /\ ~dst.body
        THEN [steps |-> upToQuery \o ", body", status |-> 400]
        ELSE IF ~dst.valid
        THEN [steps |-> upToQuery \o ", body, validate", status |-> 422]
        ELSE [steps |-> upToQuery \o ", body, validate", status |-> 0]

\* C32: Bind runs path binding, then query binding (for GET, DELETE and
\* HEAD only), then body binding, and Validate only when all of them
\* succeeded; a binding failure is a StructuredError 400 (415 for a body of
\* an unsupported media type) returned without calling Validate, and a
\* Validate failure is a StructuredError 422.
C32_BindOrder ==
    \A i \in 1..Len(log) :
        log[i].ev = "Bind" =>
            LET want == BindExpected(c.Request, log[i].got.dst)
                err == log[i].got.err
            IN  /\ log[i].id = want.steps
                /\ IF want.status = 0 THEN IsNil(err)
                   ELSE IsStructured(err) /\ err.StatusCode = want.status

\* C32 witness: a POST request with a text/plain body was refused with 415
\* although the query does not fit the destination, and Validate was not
\* called
C32_Witness ==
    /\ c.Request.Method = MethodPost
    /\ \E i \in 1..Len(log) :
           /\ log[i].ev = "Bind"
           /\ ~log[i].got.dst.query /\ ~log[i].got.dst.valid
           /\ log[i].id = "path, body"
           /\ log[i].got.err.StatusCode = StatusUnsupportedMediaType

\* C34: whenever a status line or body byte of the current request has
\* been sent to the transport's writer the Response is committed, and the
\* writer receives at most one status per request, whichever helper wrote:
\* File, Attachment, the Static route or a write through ResponseWriter().
C34_CommittedWhenSent ==
    /\ (Wire.status # 0 \/ Wire.body # <<>>) => c.response.Committed
    /\ Wire.calls <= 1

\* the number of events of the kind in the log of the current request
Count(ev) == Cardinality({ i \in 1..Len(log) : log[i].ev = ev })

\* C35: during one request every middleware invokes its next handler at
\* most once, so that the terminal handler runs at most once per request,
\* also under the Static middleware when the file does not exist and next
\* returns a failure.
C35_NextAtMostOnce ==
    /\ Count("H") <= 1
    /\ \A id \in { chain[i].id : i \in 1..Len(chain) } :
           Cardinality({ i \in 1..Len(log) : log[i].ev = "before" /\ log[i].id = id })
               <= Cardinality({ i \in 1..Len(chain) : chain[i].id = id })

====
